---- MODULE Spec2Model ----
(***************************************************************************)
(* rNews: the per-category dispatch pipeline (keyword filter, cross-source *)
(* title deduplication, title translation with a primary/fallback provider *)
(* pair and a failure circuit breaker, message splitting, webhook fan-out).*)
(*                                                                         *)
(* Strings are sequences of UTF-16 code units (integers).  One action is   *)
(* the code that runs between two await points of the async functions.     *)
(***************************************************************************)
EXTENDS Integers, Sequences, FiniteSets, TLC

(***************************************************************************)
(* Bounds of the model.                                                    *)
(***************************************************************************)
\* longest item list handed to translateTitles / TitleDeduplicator.filter
\* in the stand-alone specifications
MaxItems == 3
\* longest item list a source fetch returns in the dispatch specification
MaxFetch == 2
\* most items offered to one deduplicator in the stand-alone specification
MaxOffered == 4
\* longest list of groups given to formatNewsMessages
MaxGroups == 4
\* longest list of blocked keywords given to applyKeywordFilter
MaxKeywords == 2

(***************************************************************************)
(* Program constants.                                                      *)
(***************************************************************************)
\* translator.ts:21
MAX_CONSECUTIVE_FAILURES == 2
\* translator.ts:18
THROTTLE_MS == 300
\* dispatcher: sleep(1000) after every send
SEND_DELAY_MS == 1000
\* dispatcher: filter(items, threshold = 0.5), as the fraction 1/2
ThresholdNum == 1
ThresholdDen == 2
\* formatter.ts: formatNewsMessages(…, maxSourcesPerMsg = 3, maxChars = 4500)
DefaultMaxSourcesPerMsg == 3
DefaultMaxChars == 4500
MAX_CONTENT_LENGTH == 5000
MAX_CONTENT_BYTES == 4096

(***************************************************************************)
(* Characters.                                                             *)
(***************************************************************************)
\* /[一-鿿]/ : the ideographs TitleDeduplicator.extractTokens keeps
IsDedupCjk(c) == c >= 19968 /\ c <= 40959

\* /[一-鿿㐀-䶿豈-﫿]/ : needsTranslation's cjkPattern
IsTranslatorCjk(c) ==
    \/ (c >= 19968 /\ c <= 40959)
    \/ (c >= 13312 /\ c <= 19903)
    \/ (c >= 63744 /\ c <= 64255)

\* \s
IsSpace(c) == (c >= 9 /\ c <= 13) \/ c = 32 \/ c = 160 \/ c = 12288

\* \d
IsDigit(c) == c >= 48 /\ c <= 57

\* \p{P} or \p{S}, on the code units the model uses: the ASCII punctuation
\* and symbols, the CJK comma and full stop, the full-width ASCII variants
IsPunctOrSymbol(c) ==
    \/ (c >= 33 /\ c <= 47)
    \/ (c >= 58 /\ c <= 64)
    \/ (c >= 91 /\ c <= 96)
    \/ (c >= 123 /\ c <= 126)
    \/ (c >= 12289 /\ c <= 12290)
    \/ (c >= 65281 /\ c <= 65295)
    \/ (c >= 65306 /\ c <= 65312)

IsLowerAscii(c) == c >= 97 /\ c <= 122

\* String.prototype.toLowerCase on one code unit (ASCII letters)
LowerChar(c) == IF c >= 65 /\ c <= 90 THEN c + 32 ELSE c

toLowerCase(s) == [i \in DOMAIN s |-> LowerChar(s[i])]

\* String.prototype.includes
Includes(text, kw) ==
    \E i \in 0..(Len(text) - Len(kw)) :
        \A j \in 1..Len(kw) : text[i + j] = kw[j]

(***************************************************************************)
(* translator.ts: needsTranslation                                         *)
(***************************************************************************)
CjkCount(text) == Cardinality({i \in DOMAIN text : IsTranslatorCjk(text[i])})

MeaningfulChars(text) ==
    Cardinality({i \in DOMAIN text :
        ~(IsSpace(text[i]) \/ IsDigit(text[i]) \/ IsPunctOrSymbol(text[i]))})

\* mutant: `<=` for `<`
needsTranslationAtMost(text) ==
    /\ MeaningfulChars(text) # 0
    /\ 10 * CjkCount(text) <= 3 * MeaningfulChars(text)

\* cjkCount / meaningfulChars < 0.3, in integers (exact for these lengths)
needsTranslation(text) ==
    /\ MeaningfulChars(text) # 0
    /\ 10 * CjkCount(text) < 3 * MeaningfulChars(text)

(***************************************************************************)
(* dispatcher: TitleDeduplicator                                           *)
(***************************************************************************)
RECURSIVE WordRuns(_, _, _)
\* the matches of /[a-z]{3,}/g in s from position i on, cur being the run
\* of letters that ends just before i
WordRuns(s, i, cur) ==
    IF i > Len(s)
    THEN IF Len(cur) >= 3 THEN {cur} ELSE {}
    ELSE IF IsLowerAscii(s[i])
         THEN WordRuns(s, i + 1, Append(cur, s[i]))
         ELSE (IF Len(cur) >= 3 THEN {cur} ELSE {}) \cup WordRuns(s, i + 1, <<>>)

extractTokens(title) ==
    {<<title[i]>> : i \in {j \in DOMAIN title : IsDedupCjk(title[j])}}
        \cup WordRuns(toLowerCase(title), 1, <<>>)

\* jaccard(a, b) >= threshold, the quotient intersection / union compared
\* as a fraction; jaccard is 0 when either set is empty
IntersectionSize(a, b) == Cardinality(a \cap b)

\* mutant: the common tokens are counted twice in the denominator
UnionSizeCountsTwice(a, b) == Cardinality(a) + Cardinality(b)

UnionSize(a, b) == Cardinality(a) + Cardinality(b) - IntersectionSize(a, b)

\* jaccard(a, b): the number it returns, as the fraction num / den
jaccard(a, b) ==
    IF Cardinality(a) = 0 \/ Cardinality(b) = 0
    THEN [num |-> 0, den |-> 1]
    ELSE [num |-> IntersectionSize(a, b), den |-> UnionSize(a, b)]

\* mutant: the README's "Jaccard > 0.5", the boundary excluded
JaccardAbove(a, b, num, den) ==
    IF Cardinality(a) = 0 \/ Cardinality(b) = 0
    THEN 0 > num
    ELSE IntersectionSize(a, b) * den > num * UnionSize(a, b)

JaccardAtLeast(a, b, num, den) ==
    IF Cardinality(a) = 0 \/ Cardinality(b) = 0
    THEN 0 >= num
    ELSE IntersectionSize(a, b) * den >= num * UnionSize(a, b)

\* one iteration of filter's loop on the state seenIn: the state after it
\* and whether the item goes to the result
\* mutant: the exact-link check is missing
LinkNeverDup(seenIn, item) == FALSE

\* `this.seen.some((s) => s.link === item.link)`
IsLinkDup(seenIn, item) == \E k \in DOMAIN seenIn : seenIn[k].link = item.link

IsTitleDup(seenIn, item) ==
    \E k \in DOMAIN seenIn :
        JaccardAtLeast(seenIn[k].chars, extractTokens(item.title),
                       ThresholdNum, ThresholdDen)

FilterStep(seenIn, item) ==
    IF IsLinkDup(seenIn, item) \/ IsTitleDup(seenIn, item)
    THEN [seen |-> seenIn, kept |-> FALSE]
    ELSE [seen |-> Append(seenIn, [chars |-> extractTokens(item.title),
                                   link |-> item.link]),
          kept |-> TRUE]

RECURSIVE FilterFrom(_, _, _, _, _)
\* filter(items) from item i on; result and flags are what the loop has
\* built so far
FilterFrom(seenIn, items, i, result, flags) ==
    IF i > Len(items)
    THEN [seen |-> seenIn, result |-> result, flags |-> flags]
    ELSE LET step == FilterStep(seenIn, items[i])
         IN FilterFrom(step.seen, items, i + 1,
                       IF step.kept THEN Append(result, items[i]) ELSE result,
                       Append(flags, step.kept))

\* TitleDeduplicator.filter(items) with the default threshold
DedupFilter(seenIn, items) == FilterFrom(seenIn, items, 1, <<>>, <<>>)

\* the history entries of one filter call, tagged with the call's label
LogEntries(items, flags, tag) ==
    [i \in DOMAIN items |-> [item |-> items[i], kept |-> flags[i], call |-> tag]]

(***************************************************************************)
(* NewsItem values.  desc is extra.description, <<>> when it is absent or  *)
(* empty (the code reads it through `?? ''` and through truthiness only).  *)
(***************************************************************************)
Item(t, l, d) == [title |-> t, link |-> l, desc |-> d]

\* "gpt new"
EnTitle == <<103, 112, 116, 32, 110, 101, 119>>
\* "fast tool"
EnDesc == <<102, 97, 115, 116, 32, 116, 111, 111, 108>>
\* "own/repo"
RepoTitle == <<111, 119, 110, 47, 114, 101, 112, 111>>
\* "中国人工"
ZhTitle == <<20013, 22269, 20154, 24037>>
\* "中国"
ZhShort == <<20013, 22269>>
\* "中文化"
ZhOther == <<20013, 25991, 21270>>
\* "特工"
ZhBlocked == <<29305, 24037>>
\* "特", the keyword of filter.local.yaml in the model
Keyword == <<29305>>
\* provider answers: "中文" and "特朗"
ZhAnswer == <<20013, 25991>>
ZhAnswerKw == <<29305, 26391>>

ItemEn == Item(EnTitle, "l1", <<>>)
ItemZh == Item(ZhTitle, "l2", <<>>)
ItemRepo == Item(RepoTitle, "l5", EnDesc)

\* the items the stand-alone translator specification draws its input from
TranslatorPool == {ItemEn, ItemZh, ItemRepo}

\* "123 !"
NoTokenTitle == <<49, 50, 51, 32, 33>>
\* "12"
NoTokenOther == <<49, 50>>

ItemShort == Item(ZhShort, "l3", <<>>)
ItemSameLink == Item(ZhOther, "l1", <<>>)
ItemBlocked == Item(ZhBlocked, "l4", <<>>)
ItemNoTokens == Item(NoTokenTitle, "l3", <<>>)
ItemNoTokens2 == Item(NoTokenOther, "l2", <<>>)

DedupPool == {ItemEn, ItemZh, ItemShort, ItemSameLink, ItemNoTokens, ItemNoTokens2}

RECURSIVE SeqsUpTo(_, _)
\* all sequences over S of length at most n
SeqsUpTo(S, n) ==
    IF n = 0 THEN {<<>>}
    ELSE LET shorter == SeqsUpTo(S, n - 1)
         IN shorter \cup {Append(q, x) : q \in {r \in shorter : Len(r) = n - 1}, x \in S}

(***************************************************************************)
(* State.                                                                  *)
(***************************************************************************)
VARIABLES
    \* translateTitles: parameters, loop position and locals
    tItems, tIsGithub, tIdx, tResults,
    translatedCount, consecutiveFailures, aborted,
    \* where the running translateTitles call is suspended
    tPc,
    \* history: the provider calls and pacing delays of the call, in order
    tCalls,
    \* history: outcome of the primary and the fallback request of the
    \* translateText call in progress or just returned, and what it returned
    tAttempt,
    \* TitleDeduplicator.seen of the deduplicator in use
    seen,
    \* what the last filter call returned
    unique,
    \* history: every item offered to this deduplicator, in arrival order,
    \* with the call it came in and whether filter kept it
    dLog,
    \* dispatch: parameters and what it builds on entry
    config, categoryIds, localFilter, webhookAdapters,
    \* dispatch: where it is suspended, and its loop positions (category,
    \* source, webhook, message), 1-based
    pc, cIdx, sIdx, wIdx, mIdx,
    \* dispatch: locals of the category being processed
    groups, messages,
    \* history: positions of categoryIds whose category was found
    visited,
    \* history: the links kept in the categories visited before the current
    \* one, and the category positions at which a fetch returned nothing, a
    \* translateTitles call ended on a failed translation or a send threw
    priorKept, failedAt,
    \* history of the category being processed: fetches, sends and pacing
    \* delays in order; what each source returned and what the keyword
    \* filter left; the source position each group came from
    netLog, srcLog, groupSrc,
    \* a call of formatNewsMessages: its arguments and what it returned
    fArgs, fMessages,
    \* a call of an adapter's sendMarkdown: the adapter and text, and the
    \* content it puts in the request body
    aCall, aContent,
    \* a call of applyKeywordFilter: its arguments and what it returned
    kArgs, kResult,
    \* several dispatch invocations in one process: the locals of each, and
    \* TitleDeduplicator.seen of the deduplicator each has constructed
    inv, dedupSeen,
    \* a call of one of the helpers needsTranslation, extractTokens, jaccard:
    \* its arguments and what it returned
    cArgs, cResult,
    \* WecomWebhook.sendMarkdown: its local `content` while the truncation
    \* loop runs
    wContent,
    \* startScheduler: where it is, its config.schedule and position in it,
    \* and the rules for which cron.schedule registered a callback
    schedPc, schedule, ruleIdx, jobs,
    \* the configuration file as loadConfig finds it
    configFile,
    \* history: every trigger of a registered callback, in order
    triggers

tvars == <<tItems, tIsGithub, tIdx, tResults, translatedCount,
           consecutiveFailures, aborted, tPc, tCalls, tAttempt>>

dvars == <<seen, unique, dLog>>

pvars == <<config, categoryIds, localFilter, webhookAdapters, pc, cIdx, sIdx,
           wIdx, mIdx, groups, messages, visited, priorKept, failedAt, netLog,
           srcLog, groupSrc>>

\* the calls of single functions, outside a dispatch run
uvars == <<fArgs, fMessages, aCall, aContent, kArgs, kResult>>

\* the invocations of dispatch that run side by side
rvars == <<inv, dedupSeen>>

\* the calls of the character and token helpers
cvars == <<cArgs, cResult>>

\* the truncation loop of WecomWebhook.sendMarkdown, step by step
lvars == <<wContent>>

\* the scheduler process
svars == <<schedPc, schedule, ruleIdx, jobs, configFile, triggers>>

xvars == <<rvars, cvars, lvars, svars>>

vars == <<tvars, dvars, pvars, uvars, xvars>>

\* no value: a call not made, a result not there yet
None == [none |-> TRUE]

\* what a call returned
Returned(v) == [value |-> v]

\* no single function is being called
UIdle ==
    /\ fArgs = None
    /\ fMessages = None
    /\ aCall = None
    /\ aContent = None
    /\ kArgs = None
    /\ kResult = None

\* no invocation of dispatch runs beside the one modelled by pvars
RIdle ==
    /\ inv = <<>>
    /\ dedupSeen = <<>>

\* no helper is being called
CIdle ==
    /\ cArgs = None
    /\ cResult = None

\* no truncation loop is running
LIdle == wContent = None

\* no scheduler has been started
SIdle ==
    /\ schedPc = "off"
    /\ schedule = <<>>
    /\ ruleIdx = 0
    /\ jobs = {}
    /\ configFile = None
    /\ triggers = <<>>

XIdle == RIdle /\ CIdle /\ LIdle /\ SIdle

(***************************************************************************)
(* translator.ts: translateText and the two providers.                     *)
(* A provider request ends in one of: a non-empty text ("ok"), no text     *)
(* ("null": non-2xx answer, missing or empty field, code # 200), or a      *)
(* rejected promise ("throw": network error, timeout, bad JSON).           *)
(* translateText returns a non-empty text or null; null is <<>> here.      *)
(***************************************************************************)
NoText == <<>>

ProviderOutcomes(text) ==
    {[kind |-> "ok", text |-> t] : t \in {text, ZhAnswer, ZhAnswerKw}}
        \cup {[kind |-> "null", text |-> NoText], [kind |-> "throw", text |-> NoText]}

NoAttempt == [p |-> "none", f |-> "none", ret |-> "none", text |-> NoText]

\* what translateText hands back, as a kind
RetKind(v) == IF v = NoText THEN "null" ELSE "text"

\* mutant: `return await translatePrimary(text)` inside the try, so that a
\* primary that answers without a text ends translateText
PrimaryGaveTextOrNothing(out) == out.kind # "throw"

\* `if (primary) return primary;` and the catch around it: the fallback
\* is tried unless the primary gave a text
PrimaryGaveText(out) == out.kind = "ok"

\* `if (fallback) return fallback;`, else (null or caught exception) null
FallbackResult(out) == IF out.kind = "ok" THEN out.text ELSE NoText

(***************************************************************************)
(* translator.ts: translateTitles                                          *)
(***************************************************************************)
\* the text translateTitles looks at: extra.description or title
TargetText(item, isGithub) == IF isGithub THEN item.desc ELSE item.title

\* `${text}（${translated}）`
Augmented(text, translated) == text \o <<65288>> \o translated \o <<65289>>

WithTranslation(item, isGithub, translated) ==
    IF isGithub
    THEN [item EXCEPT !.desc = Augmented(item.desc, translated)]
    ELSE [item EXCEPT !.title = Augmented(item.title, translated)]

\* `desc && needsTranslation(desc)` / `needsTranslation(item.title)`
WantsTranslation(item, isGithub) ==
    LET text == TargetText(item, isGithub)
    IN text # <<>> /\ needsTranslation(text)

\* mutant: `>` for `>=`
BreakerTripsLate(failures) == failures > MAX_CONSECUTIVE_FAILURES

\* the circuit breaker test at the end of an iteration
BreakerTrips(failures) == failures >= MAX_CONSECUTIVE_FAILURES

\* an iteration that pushes the item as it is and reaches the end of the
\* loop body; failures is consecutiveFailures after the iteration
PassThrough(failures) ==
    /\ tResults' = Append(tResults, tItems[tIdx])
    /\ consecutiveFailures' = failures
    /\ aborted' = (aborted \/ BreakerTrips(failures))
    /\ tIdx' = tIdx + 1
    /\ tPc' = "loop"
    /\ UNCHANGED translatedCount

\* mutant: the `continue` after a successful translation is missing, so
\* the item is pushed a second time, untranslated
PushTranslatedFallsThrough(translated) ==
    /\ tResults' = Append(Append(tResults,
                       WithTranslation(tItems[tIdx], tIsGithub, translated)),
                       tItems[tIdx])
    /\ translatedCount' = translatedCount + 1
    /\ consecutiveFailures' = 0
    /\ tIdx' = tIdx + 1
    /\ tPc' = "loop"
    /\ UNCHANGED aborted

\* mutant: `consecutiveFailures = 0` is missing after a translation
PushTranslatedKeepsCounter(translated) ==
    /\ tResults' = Append(tResults, WithTranslation(tItems[tIdx], tIsGithub, translated))
    /\ translatedCount' = translatedCount + 1
    /\ tIdx' = tIdx + 1
    /\ tPc' = "loop"
    /\ UNCHANGED <<consecutiveFailures, aborted>>

\* a successful translation: push the variant, count, reset, `continue`
PushTranslated(translated) ==
    /\ tResults' = Append(tResults, WithTranslation(tItems[tIdx], tIsGithub, translated))
    /\ translatedCount' = translatedCount + 1
    /\ consecutiveFailures' = 0
    /\ tIdx' = tIdx + 1
    /\ tPc' = "loop"
    /\ UNCHANGED aborted

\* mutant: the `translated !== text` test is missing, so that an answer
\* equal to the original is wrapped as well
AfterTranslateTextWrapsEqual(translated) ==
    IF translated # NoText
    THEN PushTranslated(translated)
    ELSE PassThrough(consecutiveFailures + 1)

\* the code after `await translateText(...)`
AfterTranslateText(translated) ==
    IF translated # NoText /\ translated # TargetText(tItems[tIdx], tIsGithub)
    THEN PushTranslated(translated)
    ELSE PassThrough(IF translated = NoText
                     THEN consecutiveFailures + 1
                     ELSE consecutiveFailures)

\* entry: the locals of a fresh call
TBegin(items, isGithub) ==
    /\ tItems' = items
    /\ tIsGithub' = isGithub
    /\ tIdx' = 1
    /\ tResults' = <<>>
    /\ translatedCount' = 0
    /\ consecutiveFailures' = 0
    /\ aborted' = FALSE
    /\ tPc' = "loop"
    /\ tCalls' = <<>>
    /\ tAttempt' = NoAttempt

\* mutant: the delay is taken before every provider call but the one for
\* the first item
PacingDueAfterFirstItem == tIdx > 1

\* `if (translatedCount > 0) await sleep(THROTTLE_MS)`
PacingDue == translatedCount > 0

\* top of one loop iteration, up to its first await
TLoop ==
    /\ tPc = "loop"
    /\ tIdx <= Len(tItems)
    /\ UNCHANGED <<tItems, tIsGithub, tCalls>>
    /\ IF aborted
       THEN /\ tResults' = Append(tResults, tItems[tIdx])
            /\ tIdx' = tIdx + 1
            /\ UNCHANGED <<translatedCount, consecutiveFailures, aborted, tPc, tAttempt>>
       ELSE IF WantsTranslation(tItems[tIdx], tIsGithub)
            THEN /\ tPc' = IF PacingDue THEN "sleep" ELSE "primary"
                 /\ tAttempt' = NoAttempt
                 /\ UNCHANGED <<tIdx, tResults, translatedCount,
                                consecutiveFailures, aborted>>
            ELSE /\ PassThrough(consecutiveFailures)
                 /\ UNCHANGED tAttempt

\* await sleep(THROTTLE_MS)
TSleep ==
    /\ tPc = "sleep"
    /\ tCalls' = Append(tCalls, [op |-> "sleep", idx |-> tIdx, ms |-> THROTTLE_MS])
    /\ tPc' = "primary"
    /\ UNCHANGED <<tItems, tIsGithub, tIdx, tResults, translatedCount,
                   consecutiveFailures, aborted, tAttempt>>

\* translateText: await translatePrimary(text), then what follows it
TPrimary(out) ==
    /\ tPc = "primary"
    /\ tCalls' = Append(tCalls, [op |-> "primary", idx |-> tIdx, ms |-> 0])
    /\ UNCHANGED <<tItems, tIsGithub>>
    /\ IF PrimaryGaveText(out)
       THEN /\ tAttempt' = [p |-> out.kind, f |-> "none",
                                ret |-> RetKind(out.text), text |-> out.text]
            /\ AfterTranslateText(out.text)
       ELSE /\ tAttempt' = [p |-> out.kind, f |-> "none", ret |-> "none", text |-> NoText]
            /\ tPc' = "fallback"
            /\ UNCHANGED <<tIdx, tResults, translatedCount, consecutiveFailures, aborted>>

\* translateText: await translateFallback(text), then what follows it
TFallback(out) ==
    /\ tPc = "fallback"
    /\ tCalls' = Append(tCalls, [op |-> "fallback", idx |-> tIdx, ms |-> 0])
    /\ UNCHANGED <<tItems, tIsGithub>>
    /\ tAttempt' = [tAttempt EXCEPT !.f = out.kind,
                        !.ret = RetKind(FallbackResult(out)),
                        !.text = FallbackResult(out)]
    /\ AfterTranslateText(FallbackResult(out))

\* `return results`
TReturn ==
    /\ tPc = "loop"
    /\ tIdx > Len(tItems)
    /\ tPc' = "done"
    /\ UNCHANGED <<tItems, tIsGithub, tIdx, tResults, translatedCount,
                   consecutiveFailures, aborted, tCalls, tAttempt>>

\* the text of the translateText call in progress
CurrentText ==
    IF tIdx \in DOMAIN tItems THEN TargetText(tItems[tIdx], tIsGithub) ELSE <<>>

TStep ==
    \/ TLoop
    \/ TSleep
    \/ \E out \in ProviderOutcomes(CurrentText) : TPrimary(out)
    \/ \E out \in ProviderOutcomes(CurrentText) : TFallback(out)
    \/ TReturn

(***************************************************************************)
(* formatter.ts: formatNewsMessages, formatGithubMarkdown.                 *)
(* A message is kept as its parts: which header it carries, the groups     *)
(* whose sections it holds, whether the timestamp footer ends it.          *)
(***************************************************************************)
\* footer.length: "\n\n> 更新时间：" and "YYYY-MM-DD HH:mm"
FooterLength == 25

\* String(n).length, for the list numbers of the model
Digits(n) == IF n < 10 THEN 1 ELSE IF n < 100 THEN 2 ELSE 3

\* `${index + 1}. [${item.title}](${item.link})`.length
ItemLineLength(item, number) ==
    Digits(number) + 3 + Len(item.title) + 2 + Len(item.link) + 1

RECURSIVE ItemLinesLength(_, _)
\* the item lines of a section from item i on, each with the "\n" before it
ItemLinesLength(items, i) ==
    IF i > Len(items) THEN 0
    ELSE 1 + ItemLineLength(items[i], i) + ItemLinesLength(items, i + 1)

\* formatSourceSection(group).length: "### name", "", the item lines
SectionLength(group) == 4 + Len(group.name) + 1 + ItemLinesLength(group.items, 1)

\* mutant: every message gets the plain header
NewsMessagePlainHeader(batchIndex, sections) ==
    [kind |-> "news", cont |-> FALSE, sections |-> sections, footer |-> TRUE]

\* mutant: the footer is not appended
NewsMessageWithoutFooter(batchIndex, sections) ==
    [kind |-> "news", cont |-> batchIndex # 0, sections |-> sections, footer |-> FALSE]

\* header + '\n' + currentSections.join('\n\n') + footer
NewsMessage(batchIndex, sections) ==
    [kind |-> "news", cont |-> batchIndex # 0, sections |-> sections, footer |-> TRUE]

RECURSIVE FormatFrom(_, _, _, _, _)
\* the loop of formatNewsMessages from group i on
FormatFrom(nonEmpty, i, acc, maxSourcesPerMsg, maxChars) ==
    IF i > Len(nonEmpty)
    THEN IF Len(acc.currentSections) > 0
         THEN Append(acc.messages, NewsMessage(acc.batchIndex, acc.currentSections))
         ELSE acc.messages
    ELSE LET sectionLength == SectionLength(nonEmpty[i])
             wouldExceedChars ==
                 /\ Len(acc.currentSections) > 0
                 /\ acc.currentLength + sectionLength + 2
                        > maxChars - FooterLength - 30
             wouldExceedCount == Len(acc.currentSections) >= maxSourcesPerMsg
             flushed ==
                 IF Len(acc.currentSections) > 0 /\ (wouldExceedChars \/ wouldExceedCount)
                 THEN [messages |-> Append(acc.messages,
                                      NewsMessage(acc.batchIndex, acc.currentSections)),
                       batchIndex |-> acc.batchIndex + 1,
                       currentSections |-> <<>>,
                       currentLength |-> 0]
                 ELSE acc
         IN FormatFrom(nonEmpty, i + 1,
                [flushed EXCEPT !.currentSections = Append(@, nonEmpty[i]),
                                !.currentLength = @ + sectionLength + 2],
                maxSourcesPerMsg, maxChars)

\* mutant: the groups are not filtered for emptiness
formatNewsMessagesKeepsEmpty(groupList, maxSourcesPerMsg, maxChars) ==
    FormatFrom(groupList, 1,
        [messages |-> <<>>, batchIndex |-> 0,
         currentSections |-> <<>>, currentLength |-> 0],
        maxSourcesPerMsg, maxChars)

\* mutant: `>` where the count test has `>=`
formatNewsMessagesCountOffByOne(groupList, maxSourcesPerMsg, maxChars) ==
    FormatFrom(SelectSeq(groupList, LAMBDA g : Len(g.items) > 0), 1,
        [messages |-> <<>>, batchIndex |-> 0,
         currentSections |-> <<>>, currentLength |-> 0],
        maxSourcesPerMsg + 1, maxChars)

formatNewsMessages(groupList, maxSourcesPerMsg, maxChars) ==
    LET nonEmpty == SelectSeq(groupList, LAMBDA g : Len(g.items) > 0)
    IN IF Len(nonEmpty) = 0
       THEN <<[kind |-> "news", cont |-> FALSE, sections |-> <<>>, footer |-> FALSE]>>
       ELSE FormatFrom(nonEmpty, 1,
                [messages |-> <<>>, batchIndex |-> 0,
                 currentSections |-> <<>>, currentLength |-> 0],
                maxSourcesPerMsg, maxChars)

\* formatGithubMarkdown: one message, the flat list and the two quote lines
formatGithubMarkdown(items) ==
    IF Len(items) = 0
    THEN [kind |-> "github", cont |-> FALSE, sections |-> <<>>, footer |-> FALSE]
    ELSE [kind |-> "github", cont |-> FALSE,
          sections |-> <<[name |-> "GitHub Trending", items |-> items]>>,
          footer |-> TRUE]

(***************************************************************************)
(* dispatcher: applyKeywordFilter, createWebhookAdapter, the configuration *)
(***************************************************************************)
\* `${item.title} ${item.extra?.description ?? ''}`
\* mutant: the description is left out of the text
FilterTextTitleOnly(item) == item.title

\* `${item.title} ${item.extra?.description ?? ''}`
FilterText(item) == item.title \o <<32>> \o item.desc

IsBlocked(item, blockedKeywords) ==
    \E k \in DOMAIN blockedKeywords : Includes(FilterText(item), blockedKeywords[k])

applyKeywordFilter(items, blockedKeywords) ==
    IF Len(blockedKeywords) = 0 THEN items
    ELSE SelectSeq(items, LAMBDA item : ~IsBlocked(item, blockedKeywords))

\* createWebhookAdapter returns an adapter for these types and throws for
\* any other
IsSupportedWebhookType(type) == type \in {"wps-teams", "wecom"}

isGithubCategory(category) ==
    \E k \in DOMAIN category.sources : category.sources[k].type = "github-trending"

\* sourceName: rssSource.name, or source.name ?? the kind's default
SourceName(source) ==
    IF source.type = "rss" \/ source.named THEN source.name
    ELSE IF source.type = "baidu-hot" THEN "BaiduHot"
    ELSE IF source.type = "toutiao-hot" THEN "Toutiao"
    ELSE IF source.type = "bilibili-hot" THEN "BilibiliHot"
    ELSE ""

Source(type, named, name) == [type |-> type, named |-> named, name |-> name]

\* "文化", with "特工" as its description
ItemDescBlocked == Item(<<25991, 21270>>, "t2", ZhBlocked)
\* "国人"
ItemTech4 == Item(<<22269, 20154>>, "t4", <<>>)
\* a repository whose description is "中文"
ItemRepoZh == Item(RepoTitle, "l8", ZhAnswer)

\* config.categories of the model, each source with the items its remote
\* end may serve (feed)
Categories ==
    [id \in {"news", "tech", "gh"} |->
        IF id = "news"
        THEN [name |-> "News", count |-> MaxFetch,
              webhooks |-> <<"wA", "ghost", "wB">>,
              sources |-> <<Source("rss", TRUE, "S1"), Source("baidu-hot", FALSE, "")>>,
              feeds |-> <<{ItemEn, ItemZh, ItemBlocked},
                          {ItemShort, ItemSameLink, ItemBlocked}>>]
        ELSE IF id = "tech"
        THEN [name |-> "Tech", count |-> 1,
              webhooks |-> <<"wA", "wB">>,
              sources |-> <<Source("rss", TRUE, "S3"), Source("baidu-hot", TRUE, "Hot"),
                            Source("toutiao-hot", FALSE, ""),
                            Source("bilibili-hot", FALSE, "")>>,
              feeds |-> <<{ItemEn}, {ItemDescBlocked}, {ItemShort}, {ItemTech4}>>]
        ELSE [name |-> "GitHub", count |-> MaxFetch,
              webhooks |-> <<"wB">>,
              sources |-> <<Source("github-trending", FALSE, "")>>,
              feeds |-> <<{ItemRepo, ItemRepoZh}>>]]

\* config.webhooks, in Object.entries order
WebhookTables ==
    {<<[name |-> "wA", type |-> "wps-teams"], [name |-> "wB", type |-> "wecom"]>>,
     <<[name |-> "wA", type |-> "wps-teams"], [name |-> "wB", type |-> "slack"]>>}

Configs ==
    {[webhooks |-> w, translate |-> t] : w \in WebhookTables, t \in BOOLEAN}

CategoryIdLists ==
    {<<"news", "tech">>, <<"nope", "gh">>, <<"tech", "nope", "news">>}

\* config.categories[categoryId]
IsKnownCategory(id) == id \in DOMAIN Categories

\* what a fetch of source k of a category can return: at most count items
\* of its feed, [] on failure; an RSS fetch returns no link twice
HasDistinctLinks(items) ==
    \A i, j \in DOMAIN items : items[i].link = items[j].link => i = j

FetchResults(category, k) ==
    {r \in SeqsUpTo(category.feeds[k], category.count) :
        category.sources[k].type = "rss" => HasDistinctLinks(r)}

\* dispatch is not running
DIdle ==
    /\ config = [webhooks |-> <<>>, translate |-> TRUE]
    /\ categoryIds = <<>>
    /\ localFilter = <<>>
    /\ webhookAdapters = {}
    /\ pc = "idle"
    /\ cIdx = 1
    /\ sIdx = 1
    /\ wIdx = 1
    /\ mIdx = 1
    /\ groups = <<>>
    /\ messages = <<>>
    /\ visited = <<>>
    /\ priorKept = {}
    /\ failedAt = {}
    /\ netLog = <<>>
    /\ srcLog = <<>>
    /\ groupSrc = <<>>

(***************************************************************************)
(* SpecTranslate: one translateTitles call on any input list.              *)
(***************************************************************************)
InitTranslate ==
    /\ tItems \in SeqsUpTo(TranslatorPool, MaxItems)
    /\ tIsGithub \in BOOLEAN
    /\ tIdx = 1
    /\ tResults = <<>>
    /\ translatedCount = 0
    /\ consecutiveFailures = 0
    /\ aborted = FALSE
    /\ tPc = "loop"
    /\ tCalls = <<>>
    /\ tAttempt = NoAttempt
    /\ seen = <<>>
    /\ unique = <<>>
    /\ dLog = <<>>
    /\ DIdle
    /\ UIdle
    /\ XIdle

NextTranslate == TStep /\ UNCHANGED <<dvars, pvars, uvars, xvars>>

SpecTranslate == InitTranslate /\ [][NextTranslate]_vars

(***************************************************************************)
(* SpecTranslateCalls: translateTitles called again and again, each call   *)
(* after the one before it has returned.                                   *)
(***************************************************************************)
\* the next call: fresh locals (translateTitles keeps nothing between calls)
TCallAgain ==
    /\ tPc = "done"
    /\ \E items \in SeqsUpTo(TranslatorPool, MaxItems), isGithub \in BOOLEAN :
          TBegin(items, isGithub)

NextTranslateCalls == (TStep \/ TCallAgain) /\ UNCHANGED <<dvars, pvars, uvars, xvars>>

SpecTranslateCalls == InitTranslate /\ [][NextTranslateCalls]_vars

(***************************************************************************)
(* SpecDedup: one TitleDeduplicator, filter called on any lists.           *)
(***************************************************************************)
\* translateTitles is not running
TIdle ==
    /\ tItems = <<>>
    /\ tIsGithub = FALSE
    /\ tIdx = 1
    /\ tResults = <<>>
    /\ translatedCount = 0
    /\ consecutiveFailures = 0
    /\ aborted = FALSE
    /\ tPc = "idle"
    /\ tCalls = <<>>
    /\ tAttempt = NoAttempt

InitDedup ==
    /\ TIdle
    /\ seen = <<>>
    /\ unique = <<>>
    /\ dLog = <<>>
    /\ DIdle
    /\ UIdle
    /\ XIdle

\* dedup.filter(items)
FilterCall(items) ==
    /\ Len(dLog) + Len(items) <= MaxOffered
    /\ LET run == DedupFilter(seen, items)
           call == IF dLog = <<>> THEN 1 ELSE dLog[Len(dLog)].call + 1
       IN /\ seen' = run.seen
          /\ unique' = run.result
          /\ dLog' = dLog \o LogEntries(items, run.flags, call)
    /\ UNCHANGED <<tvars, pvars>>
    /\ UNCHANGED <<uvars, xvars>>

NextDedup == \E items \in SeqsUpTo(DedupPool, MaxItems) \ {<<>>} : FilterCall(items)

SpecDedup == InitDedup /\ [][NextDedup]_vars

(***************************************************************************)
(* dispatcher: dispatch                                                    *)
(***************************************************************************)
\* the category of the current loop position (when its id is configured)
Category == Categories[categoryIds[cIdx]]

\* translateTitles' locals go out of scope
TReset ==
    /\ tItems' = <<>>
    /\ tIsGithub' = FALSE
    /\ tIdx' = 1
    /\ tResults' = <<>>
    /\ translatedCount' = 0
    /\ consecutiveFailures' = 0
    /\ aborted' = FALSE
    /\ tPc' = "idle"
    /\ tCalls' = <<>>
    /\ tAttempt' = NoAttempt

\* the block-scoped locals of one iteration of the category loop, and the
\* per-category history
FreshCategoryLocals ==
    /\ sIdx' = 1
    /\ wIdx' = 1
    /\ mIdx' = 1
    /\ groups' = <<>>
    /\ messages' = <<>>
    /\ netLog' = <<>>
    /\ srcLog' = <<>>
    /\ groupSrc' = <<>>
    /\ unique' = <<>>
    /\ dLog' = <<>>

\* `continue` of the category loop, or the end of its body
ToNextCategory ==
    /\ cIdx' = cIdx + 1
    /\ pc' = "category"

NetEntry(op, a, b, ok) == [op |-> op, cat |-> cIdx, w |-> a, m |-> b, ok |-> ok]

\* loadLocalFilter() and the adapter loop: createWebhookAdapter throws on
\* the first entry of an unsupported type, and dispatch has no try around it
D_CreateAdapters ==
    /\ pc = "start"
    /\ LET bad == {k \in DOMAIN config.webhooks :
                      ~IsSupportedWebhookType(config.webhooks[k].type)}
           made == {k \in DOMAIN config.webhooks : \A b \in bad : k < b}
       IN /\ webhookAdapters' = {config.webhooks[k].name : k \in made}
          /\ pc' = IF bad = {} THEN "category" ELSE "threw"
    /\ UNCHANGED <<config, categoryIds, localFilter, cIdx, sIdx, wIdx, mIdx,
                   groups, messages, visited, priorKept, failedAt, netLog, srcLog, groupSrc>>
    /\ UNCHANGED <<tvars, dvars>>
    /\ UNCHANGED <<uvars, xvars>>

\* mutant: one deduplicator for the whole run
SharedDeduplicator == seen

\* new TitleDeduplicator()
NewDeduplicator == <<>>

\* head of the category loop: unknown id, GitHub category, or news category
D_NextCategory ==
    /\ pc = "category"
    /\ cIdx <= Len(categoryIds)
    /\ FreshCategoryLocals
    /\ priorKept' = priorKept \cup {dLog[k].item.link : k \in {j \in DOMAIN dLog : dLog[j].kept}}
    /\ UNCHANGED <<config, categoryIds, localFilter, webhookAdapters, failedAt>>
    /\ UNCHANGED tvars
    /\ IF ~IsKnownCategory(categoryIds[cIdx])
       THEN /\ ToNextCategory
            /\ UNCHANGED <<visited, seen>>
       ELSE /\ visited' = Append(visited, cIdx)
            /\ cIdx' = cIdx
            /\ IF isGithubCategory(Category)
               THEN /\ pc' = "fetchGithub"
                    /\ UNCHANGED seen
               ELSE /\ pc' = "fetch"
                    /\ seen' = NewDeduplicator
    /\ UNCHANGED <<uvars, xvars>>

\* `console.log('所有类别推送完成')`: dispatch returns
D_Done ==
    /\ pc = "category"
    /\ cIdx > Len(categoryIds)
    /\ pc' = "done"
    /\ UNCHANGED <<config, categoryIds, localFilter, webhookAdapters, cIdx, sIdx,
                   wIdx, mIdx, groups, messages, visited, priorKept, failedAt, netLog, srcLog, groupSrc>>
    /\ UNCHANGED <<tvars, dvars>>
    /\ UNCHANGED <<uvars, xvars>>

\* GitHub branch: await fetchGithubTrending, filter, then translate or format
D_FetchGithub(items) ==
    /\ pc = "fetchGithub"
    /\ netLog' = Append(netLog, NetEntry("fetch", 1, 0, items # <<>>))
    /\ failedAt' = IF items = <<>> THEN failedAt \cup {cIdx} ELSE failedAt
    /\ LET filtered == applyKeywordFilter(items, localFilter)
       IN /\ srcLog' = Append(srcLog, [src |-> 1, fetched |-> items, filtered |-> filtered])
          /\ IF Len(filtered) = 0
             THEN /\ ToNextCategory
                  /\ UNCHANGED <<tvars, messages>>
             ELSE /\ cIdx' = cIdx
                  /\ IF config.translate
                     THEN /\ TBegin(filtered, TRUE)
                          /\ pc' = "translate"
                          /\ UNCHANGED messages
                     ELSE /\ messages' = <<formatGithubMarkdown(filtered)>>
                          /\ pc' = "send"
                          /\ UNCHANGED tvars
    /\ UNCHANGED <<config, categoryIds, localFilter, webhookAdapters, sIdx, wIdx,
                   mIdx, groups, visited, priorKept, groupSrc>>
    /\ UNCHANGED dvars
    /\ UNCHANGED <<uvars, xvars>>

\* mutant: no check after the deduplication
SourceSkippedBeforeDedupOnly(filtered, result) == Len(filtered) = 0

\* the `if (....length === 0) continue;` after the fetch, after the keyword
\* filter and after the deduplication
SourceSkipped(filtered, result) == Len(filtered) = 0 \/ Len(result) = 0

\* one iteration of the source loop: await the fetch of source sIdx, then
\* keyword filter, deduplication, and translate or push the group
D_FetchSource(items) ==
    /\ pc = "fetch"
    /\ sIdx <= Len(Category.sources)
    /\ netLog' = Append(netLog, NetEntry("fetch", sIdx, 0, items # <<>>))
    /\ failedAt' = IF items = <<>> THEN failedAt \cup {cIdx} ELSE failedAt
    /\ LET source == Category.sources[sIdx]
           filtered == IF Len(items) = 0 THEN <<>>
                       ELSE applyKeywordFilter(items, localFilter)
           run == DedupFilter(seen, filtered)
       IN /\ srcLog' = Append(srcLog,
                          [src |-> sIdx, fetched |-> items, filtered |-> filtered])
          /\ IF Len(filtered) = 0
             THEN UNCHANGED dvars
             ELSE /\ seen' = run.seen
                  /\ unique' = run.result
                  /\ dLog' = dLog \o LogEntries(filtered, run.flags, sIdx)
          /\ IF SourceSkipped(filtered, run.result)
             THEN /\ sIdx' = sIdx + 1
                  /\ pc' = "fetch"
                  /\ UNCHANGED <<tvars, groups, groupSrc>>
             ELSE IF config.translate /\ source.type = "rss"
                  THEN /\ TBegin(run.result, FALSE)
                       /\ pc' = "translate"
                       /\ UNCHANGED <<sIdx, groups, groupSrc>>
                  ELSE /\ groups' = Append(groups,
                                       [name |-> SourceName(source), items |-> run.result])
                       /\ groupSrc' = Append(groupSrc, sIdx)
                       /\ sIdx' = sIdx + 1
                       /\ pc' = "fetch"
                       /\ UNCHANGED tvars
    /\ UNCHANGED <<config, categoryIds, localFilter, webhookAdapters, cIdx, wIdx,
                   mIdx, messages, visited, priorKept>>
    /\ UNCHANGED <<uvars, xvars>>

\* translateTitles has returned to dispatch
D_Translated ==
    /\ pc = "translate"
    /\ tPc = "done"
    /\ TReset
    /\ failedAt' = IF consecutiveFailures > 0 THEN failedAt \cup {cIdx} ELSE failedAt
    /\ IF isGithubCategory(Category)
       THEN /\ messages' = <<formatGithubMarkdown(tResults)>>
            /\ pc' = "send"
            /\ UNCHANGED <<sIdx, groups, groupSrc>>
       ELSE /\ groups' = Append(groups,
                            [name |-> SourceName(Category.sources[sIdx]),
                             items |-> tResults])
            /\ groupSrc' = Append(groupSrc, sIdx)
            /\ sIdx' = sIdx + 1
            /\ pc' = "fetch"
            /\ UNCHANGED messages
    /\ UNCHANGED <<config, categoryIds, localFilter, webhookAdapters, cIdx, wIdx,
                   mIdx, visited, priorKept, netLog, srcLog>>
    /\ UNCHANGED dvars
    /\ UNCHANGED <<uvars, xvars>>

\* a step of the translateTitles call dispatch is awaiting
D_Translating ==
    /\ pc = "translate"
    /\ TStep
    /\ UNCHANGED <<dvars, pvars>>
    /\ UNCHANGED <<uvars, xvars>>

\* after the source loop: nothing to push, or formatNewsMessages
D_Format ==
    /\ pc = "fetch"
    /\ sIdx > Len(Category.sources)
    /\ IF Len(groups) = 0
       THEN /\ ToNextCategory
            /\ UNCHANGED messages
       ELSE /\ messages' = formatNewsMessages(groups, DefaultMaxSourcesPerMsg,
                                              DefaultMaxChars)
            /\ pc' = "send"
            /\ cIdx' = cIdx
    /\ UNCHANGED <<config, categoryIds, localFilter, webhookAdapters, sIdx, wIdx,
                   mIdx, groups, visited, priorKept, failedAt, netLog, srcLog, groupSrc>>
    /\ UNCHANGED <<tvars, dvars>>
    /\ UNCHANGED <<uvars, xvars>>

\* mutant: `break` where the loop has `continue`
AfterUnknownWebhookBreak == Len(Category.webhooks) + 1

\* `if (!adapter) { warn; continue; }`: the webhook position that follows
AfterUnknownWebhook == wIdx + 1

\* a webhook id the adapter map does not hold
D_SkipWebhook ==
    /\ pc = "send"
    /\ wIdx <= Len(Category.webhooks)
    /\ Category.webhooks[wIdx] \notin webhookAdapters
    /\ wIdx' = AfterUnknownWebhook
    /\ UNCHANGED <<config, categoryIds, localFilter, webhookAdapters, pc, cIdx, sIdx,
                   mIdx, groups, messages, visited, priorKept, failedAt, netLog, srcLog, groupSrc>>
    /\ UNCHANGED <<tvars, dvars>>
    /\ UNCHANGED <<uvars, xvars>>

\* mutant: no try/catch around the send
SendFailureUncaught(ok) == ~ok

\* `try { await adapter.sendMarkdown(msg) } catch {}`: nothing escapes
SendFailureEscapes(ok) == FALSE

\* mutant: a failed send ends the message loop of its webhook
NextSendPositionStopOnFailure(ok) ==
    IF ok /\ mIdx < Len(messages)
    THEN [w |-> wIdx, m |-> mIdx + 1]
    ELSE [w |-> wIdx + 1, m |-> 1]

\* the two nested loops: next message of this webhook, else next webhook
NextSendPosition(ok) ==
    IF mIdx < Len(messages)
    THEN [w |-> wIdx, m |-> mIdx + 1]
    ELSE [w |-> wIdx + 1, m |-> 1]

\* mutant: the messages are walked from the last to the first
MessageToSendReversed == Len(messages) + 1 - mIdx

\* `for (const msg of messages)`: the message the inner loop is at
MessageToSend == mIdx

\* mutant: the delay sits inside the try, after the send
DelayAfterSuccessOnly(ok) == IF ok THEN "sleep" ELSE "send"

\* where dispatch goes once the try/catch is left: `await sleep(1000)`
AfterSendAttempt(ok) == "sleep"

\* await adapter.sendMarkdown(msg): it resolves or throws
D_Send(ok) ==
    /\ pc = "send"
    /\ wIdx <= Len(Category.webhooks)
    /\ Category.webhooks[wIdx] \in webhookAdapters
    /\ netLog' = Append(netLog, NetEntry("send", wIdx, MessageToSend, ok))
    /\ failedAt' = IF ok THEN failedAt ELSE failedAt \cup {cIdx}
    /\ IF SendFailureEscapes(ok)
       THEN /\ pc' = "threw"
            /\ UNCHANGED <<wIdx, mIdx>>
       ELSE /\ pc' = AfterSendAttempt(ok)
            /\ wIdx' = NextSendPosition(ok).w
            /\ mIdx' = NextSendPosition(ok).m
    /\ UNCHANGED <<config, categoryIds, localFilter, webhookAdapters, cIdx, sIdx,
                   groups, messages, visited, priorKept, srcLog, groupSrc>>
    /\ UNCHANGED <<tvars, dvars>>
    /\ UNCHANGED <<uvars, xvars>>

\* await sleep(1000)
D_Sleep ==
    /\ pc = "sleep"
    /\ netLog' = Append(netLog, NetEntry("sleep", SEND_DELAY_MS, 0, TRUE))
    /\ pc' = "send"
    /\ UNCHANGED <<config, categoryIds, localFilter, webhookAdapters, cIdx, sIdx,
                   wIdx, mIdx, groups, messages, visited, priorKept, failedAt, srcLog, groupSrc>>
    /\ UNCHANGED <<tvars, dvars>>
    /\ UNCHANGED <<uvars, xvars>>

\* the webhook loop is over: end of the category's iteration
D_WebhooksDone ==
    /\ pc = "send"
    /\ wIdx > Len(Category.webhooks)
    /\ ToNextCategory
    /\ UNCHANGED <<config, categoryIds, localFilter, webhookAdapters, sIdx, wIdx,
                   mIdx, groups, messages, visited, priorKept, failedAt, netLog, srcLog, groupSrc>>
    /\ UNCHANGED <<tvars, dvars>>
    /\ UNCHANGED <<uvars, xvars>>

(***************************************************************************)
(* Spec: one dispatch run.                                                 *)
(***************************************************************************)
\* filter.local.yaml: no list, or one keyword
LocalFilters == {<<>>, <<Keyword>>}

Init ==
    /\ TIdle
    /\ seen = <<>>
    /\ unique = <<>>
    /\ dLog = <<>>
    /\ config \in Configs
    /\ categoryIds \in CategoryIdLists
    /\ localFilter \in LocalFilters
    /\ webhookAdapters = {}
    /\ pc = "start"
    /\ cIdx = 1
    /\ sIdx = 1
    /\ wIdx = 1
    /\ mIdx = 1
    /\ groups = <<>>
    /\ messages = <<>>
    /\ visited = <<>>
    /\ priorKept = {}
    /\ failedAt = {}
    /\ netLog = <<>>
    /\ srcLog = <<>>
    /\ groupSrc = <<>>
    /\ UIdle
    /\ XIdle

\* the category awaited fetches are drawn for
FetchCategory ==
    IF cIdx \in DOMAIN categoryIds /\ IsKnownCategory(categoryIds[cIdx])
    THEN Category
    ELSE Categories["gh"]

FetchSourceResults ==
    IF sIdx \in DOMAIN FetchCategory.sources
    THEN FetchResults(FetchCategory, sIdx)
    ELSE {}

Next ==
    \/ D_CreateAdapters
    \/ D_NextCategory
    \/ D_Done
    \/ \E items \in FetchResults(FetchCategory, 1) : D_FetchGithub(items)
    \/ \E items \in FetchSourceResults : D_FetchSource(items)
    \/ D_Translating
    \/ D_Translated
    \/ D_Format
    \/ D_SkipWebhook
    \/ \E ok \in BOOLEAN : D_Send(ok)
    \/ D_Sleep
    \/ D_WebhooksDone

Spec == Init /\ [][Next]_vars

(***************************************************************************)
(* SpecFormat: one formatNewsMessages call on any arguments.               *)
(***************************************************************************)
RECURSIVE SectionsLength(_)
\* the lengths of the sections of a message, added up
SectionsLength(sections) ==
    IF sections = <<>> THEN 0
    ELSE SectionLength(Head(sections)) + SectionsLength(Tail(sections))

\* the length of a message as rendered: "## name" or "## name（续）", '\n',
\* the sections joined by '\n\n', the footer; without sections
\* "## name" + "\n\n暂无新闻数据。"
MessageLength(categoryName, msg) ==
    IF msg.sections = <<>>
    THEN 3 + Len(categoryName) + 2 + 7
    ELSE 3 + Len(categoryName) + (IF msg.cont THEN 3 ELSE 0) + 1
           + SectionsLength(msg.sections) + 2 * (Len(msg.sections) - 1)
           + (IF msg.footer THEN FooterLength ELSE 0)

\* a title of 2202 characters: its one-item section is 2220 long
LongTitle == [i \in 1..2202 |-> 20013]

GroupSmall == [name |-> "S1", items |-> <<ItemShort>>]
GroupTwo == [name |-> "Baidu", items |-> <<ItemEn, ItemZh>>]
GroupEmpty == [name |-> "E", items |-> <<>>]
GroupLong == [name |-> "Big", items |-> <<Item(LongTitle, "l9", <<>>)>>]

GroupPool == {GroupSmall, GroupTwo, GroupEmpty, GroupLong}

\* category names of 4 and of 31 characters
CategoryNames == {"News", "International Technology Digest"}

MaxSourcesChoices == 1..DefaultMaxSourcesPerMsg

MaxCharsChoices == {118, DefaultMaxChars}

InitFormat ==
    /\ TIdle
    /\ seen = <<>>
    /\ unique = <<>>
    /\ dLog = <<>>
    /\ DIdle
    /\ XIdle
    /\ fArgs \in [categoryName : CategoryNames,
                  groups : SeqsUpTo(GroupPool, MaxGroups),
                  maxSourcesPerMsg : MaxSourcesChoices,
                  maxChars : MaxCharsChoices]
    /\ fMessages = None
    /\ aCall = None
    /\ aContent = None
    /\ kArgs = None
    /\ kResult = None

FormatCall ==
    /\ fArgs # None
    /\ fMessages = None
    /\ fMessages' = Returned(formatNewsMessages(fArgs.groups, fArgs.maxSourcesPerMsg,
                                                fArgs.maxChars))
    /\ UNCHANGED <<fArgs, aCall, aContent, kArgs, kResult>>
    /\ UNCHANGED <<tvars, dvars, pvars, xvars>>

NextFormat == FormatCall

SpecFormat == InitFormat /\ [][NextFormat]_vars

(***************************************************************************)
(* webhooks: WpsTeamsWebhook.sendMarkdown, convertToWecomMarkdown,         *)
(* WecomWebhook.sendMarkdown, up to the request body.                      *)
(***************************************************************************)
\* '\n\n> ⚠ 内容过长，已截断'
WpsMarker ==
    <<10, 10, 62, 32, 9888, 32, 20869, 23481, 36807, 38271, 65292, 24050, 25130, 26029>>

\* text.slice(0, n) for n >= 0
SliceTo(text, n) == SubSeq(text, 1, IF n < Len(text) THEN n ELSE Len(text))

\* mutant: the cut leaves no room for the marker
WpsContentNoReserve(text) ==
    IF Len(text) > MAX_CONTENT_LENGTH
    THEN SliceTo(text, MAX_CONTENT_LENGTH) \o WpsMarker
    ELSE text

\* the markdown.text WpsTeamsWebhook.sendMarkdown posts
WpsContent(text) ==
    IF Len(text) > MAX_CONTENT_LENGTH
    THEN SliceTo(text, MAX_CONTENT_LENGTH - 30) \o WpsMarker
    ELSE text

\* String.prototype.trim's white space and line terminators
IsTrimSpace(c) ==
    \/ (c >= 9 /\ c <= 13)
    \/ c \in {32, 160, 5760, 8232, 8233, 8239, 8287, 12288, 65279}
    \/ (c >= 8192 /\ c <= 8202)

trim(text) ==
    LET solid == {i \in DOMAIN text : ~IsTrimSpace(text[i])}
    IN IF solid = {} THEN <<>>
       ELSE SubSeq(text, CHOOSE i \in solid : \A j \in solid : i <= j,
                         CHOOSE i \in solid : \A j \in solid : i >= j)

startsWith(text, prefix) ==
    /\ Len(text) >= Len(prefix)
    /\ SubSeq(text, 1, Len(prefix)) = prefix

RECURSIVE SplitLines(_)
\* text.split('\n')
SplitLines(text) ==
    LET breaks == {i \in DOMAIN text : text[i] = 10}
    IN IF breaks = {} THEN <<text>>
       ELSE LET first == CHOOSE i \in breaks : \A j \in breaks : i <= j
            IN <<SubSeq(text, 1, first - 1)>>
                   \o SplitLines(SubSeq(text, first + 1, Len(text)))

RECURSIVE JoinLines(_)
\* lines.join('\n')
JoinLines(lines) ==
    IF Len(lines) = 0 THEN <<>>
    ELSE IF Len(lines) = 1 THEN lines[1]
    ELSE lines[1] \o <<10>> \o JoinLines(Tail(lines))

Bold(text) == <<42, 42>> \o text \o <<42, 42>>

\* <font color="comment">text</font>
CommentSpan(text) ==
    <<60, 102, 111, 110, 116, 32, 99, 111, 108, 111, 114, 61, 34,
      99, 111, 109, 109, 101, 110, 116, 34, 62>>
        \o text \o <<60, 47, 102, 111, 110, 116, 62>>

\* the callback of the map in convertToWecomMarkdown
ConvertLine(line) ==
    IF startsWith(line, <<35, 35, 32>>)
    THEN Bold(trim(SubSeq(line, 4, Len(line))))
    ELSE IF startsWith(line, <<35, 35, 35, 32>>)
    THEN Bold(trim(SubSeq(line, 5, Len(line))))
    ELSE IF startsWith(line, <<62, 32>>)
    THEN CommentSpan(SubSeq(line, 3, Len(line)))
    ELSE line

convertToWecomMarkdown(text) ==
    LET lines == SplitLines(text)
    IN JoinLines([i \in DOMAIN lines |-> ConvertLine(lines[i])])

IsHighSurrogate(c) == c >= 55296 /\ c <= 56319
IsLowSurrogate(c) == c >= 56320 /\ c <= 57343

\* new TextEncoder().encode(text).length: 1 byte below U+0080, 2 below
\* U+0800, 4 for a surrogate pair, 3 otherwise (a lone surrogate is encoded
\* as U+FFFD)
Utf8Length(text) ==
    LET one == Cardinality({i \in DOMAIN text : text[i] < 128})
        two == Cardinality({i \in DOMAIN text : text[i] >= 128 /\ text[i] < 2048})
        pairs == Cardinality({i \in DOMAIN text :
                                 /\ IsHighSurrogate(text[i])
                                 /\ i + 1 \in DOMAIN text
                                 /\ IsLowSurrogate(text[i + 1])})
    IN one + 2 * two + 4 * pairs + 3 * (Len(text) - one - two - 2 * pairs)

\* '\n\n<font color="warning">内容过长，已截断</font>'
WecomMarker ==
    <<10, 10, 60, 102, 111, 110, 116, 32, 99, 111, 108, 111, 114, 61, 34,
      119, 97, 114, 110, 105, 110, 103, 34, 62,
      20869, 23481, 36807, 38271, 65292, 24050, 25130, 26029,
      60, 47, 102, 111, 110, 116, 62>>

\* mutant: `content.slice(0)`, which drops nothing
SliceNothing(text) == text

\* content.slice(0, -10)
SliceOffTail(text) == SubSeq(text, 1, Len(text) - 10)

\* the test of the truncation loop
OverReservedBytes(text) == Utf8Length(text) > MAX_CONTENT_BYTES - 60

RECURSIVE TruncateToBytes(_)
\* while (encode(content).length > MAX_CONTENT_BYTES - 60) content = content.slice(0, -10)
TruncateToBytes(text) ==
    IF OverReservedBytes(text)
    THEN TruncateToBytes(SliceOffTail(text))
    ELSE text

\* the limit applied to content already converted
LimitBytes(content) ==
    IF Utf8Length(content) > MAX_CONTENT_BYTES
    THEN TruncateToBytes(content) \o WecomMarker
    ELSE content

\* mutant: the limit is enforced on the text, the conversion comes after
WecomContentLimitFirst(text) == convertToWecomMarkdown(LimitBytes(text))

\* the markdown.content WecomWebhook.sendMarkdown posts
WecomContent(text) == LimitBytes(convertToWecomMarkdown(text))

(***************************************************************************)
(* SpecSend: one sendMarkdown call of either adapter on any text.          *)
(***************************************************************************)
Fill(n, c) == [i \in 1..n |-> c]

\* n surrogate pairs (U+1F600)
Pairs(n) == [i \in 1..(2 * n) |-> IF i % 2 = 1 THEN 55357 ELSE 56832]

\* "## News \n### S1\n\n1. [a](l)\n> t"
SmallMessage ==
    <<35, 35, 32, 78, 101, 119, 115, 32, 10, 35, 35, 35, 32, 83, 49, 10, 10,
      49, 46, 32, 91, 97, 93, 40, 108, 41, 10, 62, 32, 116>>

\* texts around the two limits, before and after the conversion
SendTexts ==
    {Fill(n, 97) : n \in {0, 1, 4036, 4037, 4095, 4096, 4097, 4970, 4986, 4999, 5000, 5001, 5100}}
        \cup {Fill(n, 20013) : n \in {1345, 1346, 1365, 1366, 1400, 4999, 5000, 5001}}
        \cup {<<62, 32>> \o Fill(n, 97) : n \in {4066, 4067, 4068, 4094, 4095}}
        \cup {<<35, 35, 32>> \o Fill(n, 32) \o Fill(4090, 97) : n \in {0, 3, 7}}
        \cup {SmallMessage \o <<10>> \o Fill(n, 20013) : n \in {10, 1355, 1356}}
        \cup {Pairs(n) \o <<97>> : n \in {5, 1023, 1024, 1030}}
        \cup {<<97>> \o Pairs(n) : n \in {1023, 1024, 2500}}

Adapters == {"wps-teams", "wecom"}

InitSend ==
    /\ TIdle
    /\ seen = <<>>
    /\ unique = <<>>
    /\ dLog = <<>>
    /\ DIdle
    /\ XIdle
    /\ fArgs = None
    /\ fMessages = None
    /\ aCall \in [adapter : Adapters, text : SendTexts]
    /\ aContent = None
    /\ kArgs = None
    /\ kResult = None

SendCall ==
    /\ aCall # None
    /\ aContent = None
    /\ aContent' = Returned(IF aCall.adapter = "wps-teams"
                            THEN WpsContent(aCall.text)
                            ELSE WecomContent(aCall.text))
    /\ UNCHANGED <<fArgs, fMessages, aCall, kArgs, kResult>>
    /\ UNCHANGED <<tvars, dvars, pvars, xvars>>

NextSend == SendCall

SpecSend == InitSend /\ [][NextSend]_vars

(***************************************************************************)
(* SpecTerminates: a dispatch run, or a WecomWebhook.sendMarkdown call     *)
(* with its truncation loop taken one iteration at a time; a step that can *)
(* be taken is taken (every awaited call returns or fails, and the event   *)
(* loop resumes the function).                                             *)
(***************************************************************************)
\* texts under and over the byte limit: ASCII, ideographs, surrogate pairs
LoopTexts ==
    {SmallMessage, Fill(4097, 97), Fill(1366, 20013), Pairs(1030) \o <<97>>}

InitTruncation ==
    /\ TIdle
    /\ seen = <<>>
    /\ unique = <<>>
    /\ dLog = <<>>
    /\ DIdle
    /\ XIdle
    /\ fArgs = None
    /\ fMessages = None
    /\ aCall \in [adapter : {"wecom"}, text : LoopTexts]
    /\ aContent = None
    /\ kArgs = None
    /\ kResult = None

\* what a step of sendMarkdown leaves alone
LoopFrame ==
    /\ UNCHANGED <<fArgs, fMessages, aCall, kArgs, kResult>>
    /\ UNCHANGED <<tvars, dvars, pvars, rvars, cvars, svars>>

\* convertToWecomMarkdown and the first byte-length test
W_Convert ==
    /\ aCall # None
    /\ aContent = None
    /\ wContent = None
    /\ LET converted == convertToWecomMarkdown(aCall.text)
       IN IF Utf8Length(converted) > MAX_CONTENT_BYTES
          THEN wContent' = Returned(converted) /\ UNCHANGED aContent
          ELSE aContent' = Returned(converted) /\ UNCHANGED wContent
    /\ LoopFrame

\* one iteration of the while loop
W_Truncate ==
    /\ wContent # None
    /\ OverReservedBytes(wContent.value)
    /\ wContent' = Returned(SliceOffTail(wContent.value))
    /\ UNCHANGED aContent
    /\ LoopFrame

\* the loop is left: the marker is appended
W_AppendMarker ==
    /\ wContent # None
    /\ ~OverReservedBytes(wContent.value)
    /\ aContent' = Returned(wContent.value \o WecomMarker)
    /\ wContent' = None
    /\ LoopFrame

InitTerminates == Init \/ InitTruncation

NextTerminates == Next \/ W_Convert \/ W_Truncate \/ W_AppendMarker

\* dispatch's next step runs once the awaited call has returned or failed,
\* and a synchronous loop runs its next iteration
SpecTerminates ==
    /\ InitTerminates
    /\ [][NextTerminates]_vars
    /\ WF_vars(Next)
    /\ WF_vars(W_Truncate \/ W_AppendMarker)

(***************************************************************************)
(* SpecFilter: one applyKeywordFilter call on any items and keywords.      *)
(***************************************************************************)
\* "GPT"
KwUpper == <<71, 80, 84>>
\* "gpt"
KwLower == <<103, 112, 116>>
\* "repo fast": the end of a title, a space, the start of a description
KwSpan == <<114, 101, 112, 111, 32, 102, 97, 115, 116>>

KeywordPool == {Keyword, KwUpper, KwLower, KwSpan}

FilterPool == {ItemEn, ItemRepo, ItemBlocked, ItemDescBlocked}

InitFilter ==
    /\ TIdle
    /\ seen = <<>>
    /\ unique = <<>>
    /\ dLog = <<>>
    /\ DIdle
    /\ XIdle
    /\ fArgs = None
    /\ fMessages = None
    /\ aCall = None
    /\ aContent = None
    /\ kArgs \in [items : SeqsUpTo(FilterPool, MaxItems),
                  blockedKeywords : SeqsUpTo(KeywordPool, MaxKeywords)]
    /\ kResult = None

KeywordFilterCall ==
    /\ kArgs # None
    /\ kResult = None
    /\ kResult' = Returned(applyKeywordFilter(kArgs.items, kArgs.blockedKeywords))
    /\ UNCHANGED <<fArgs, fMessages, aCall, aContent, kArgs>>
    /\ UNCHANGED <<tvars, dvars, pvars, xvars>>

NextFilter == KeywordFilterCall

SpecFilter == InitFilter /\ [][NextFilter]_vars

(***************************************************************************)
(* SpecInvocations: two dispatch invocations in one process (two cron      *)
(* rules firing together, a trigger during a run), their steps interleaved *)
(* at the await points.  inv[r] holds the locals of invocation r, the      *)
(* network operations it has started and not yet seen complete, and the    *)
(* history of what it received and sent.                                   *)
(***************************************************************************)
Invocations == {1, 2}

\* the arguments of the invocations: config (both webhook types supported,
\* translation on), the category id lists, and filter.local.yaml
InvWebhooks == {"wA", "wB"}

InvTranslate == TRUE

InvLocalFilter == <<Keyword>>

InvocationIdLists == {<<"tech">>, <<"nope", "gh">>}

\* the locals of an invocation that has not run yet
NotStarted(ids) ==
    [ids |-> ids, pc |-> "idle", cIdx |-> 1, sIdx |-> 1, wIdx |-> 1, mIdx |-> 1,
     groups |-> <<>>, messages |-> <<>>,
     tItems |-> <<>>, tIsGithub |-> FALSE, tIdx |-> 1, tResults |-> <<>>,
     translatedCount |-> 0, consecutiveFailures |-> 0, aborted |-> FALSE,
     inflight |-> {},
     fetched |-> <<>>, kept |-> <<>>, answers |-> <<>>, sent |-> <<>>]

\* network operations
FetchOp(k) == [kind |-> "fetch", a |-> k, b |-> 0]

ProviderOp(which, i) == [kind |-> which, a |-> i, b |-> 0]

PostOp(w, m) == [kind |-> "post", a |-> w, b |-> m]

\* config.categories[categoryId] of the category invocation rec is at
InvCategory(rec) == Categories[rec.ids[rec.cIdx]]

\* mutant: one module-level deduplicator, used by every invocation
DedupOwnerShared(r) == 1

\* `const dedup = new TitleDeduplicator()` inside the category loop: the
\* deduplicator an invocation uses is the one it has constructed itself
DedupOwner(r) == r

\* mutant: the fetches of all sources of a category are started together
\* and awaited one by one
FetchesStartedTogether(category, k) ==
    IF k = 1 THEN DOMAIN category.sources ELSE {}

\* `items = await fetch…(…)` in the source loop: the fetch of source k is
\* started when the loop reaches it
FetchesStarted(category, k) == {k}

\* `continue` of the category loop, or the end of its body
InvToNextCategory(rec) == [rec EXCEPT !.cIdx = @ + 1, !.pc = "category"]

\* the locals of a fresh translateTitles call
InvTBegin(rec, items, isGithub) ==
    [rec EXCEPT !.tItems = items, !.tIsGithub = isGithub, !.tIdx = 1,
                !.tResults = <<>>, !.translatedCount = 0,
                !.consecutiveFailures = 0, !.aborted = FALSE,
                !.answers = <<>>, !.pc = "item"]

\* the webhook loop is entered with these messages
InvToPost(rec, msgs) ==
    [rec EXCEPT !.messages = msgs, !.wIdx = 1, !.mIdx = 1, !.pc = "post"]

\* groups.push({ name: sourceName, items }) and the next source
InvPushGroup(rec, items) ==
    [rec EXCEPT !.groups = Append(@, [name |-> SourceName(InvCategory(rec).sources[rec.sIdx]),
                                      items |-> items]),
                !.sIdx = @ + 1, !.pc = "source"]

\* an iteration of translateTitles' loop that pushes the item as it is
InvPassThrough(rec, failures) ==
    [rec EXCEPT !.tResults = Append(@, rec.tItems[rec.tIdx]),
                !.consecutiveFailures = failures,
                !.aborted = (@ \/ BreakerTrips(failures)),
                !.tIdx = @ + 1, !.pc = "item"]

\* the code after `await translateText(...)`
InvAfterTranslateText(rec, translated) ==
    LET got == [rec EXCEPT !.answers = Append(@, translated)]
        item == rec.tItems[rec.tIdx]
    IN IF translated # NoText /\ translated # TargetText(item, rec.tIsGithub)
       THEN [got EXCEPT !.tResults = Append(@, WithTranslation(item, rec.tIsGithub, translated)),
                        !.translatedCount = @ + 1,
                        !.consecutiveFailures = 0,
                        !.tIdx = @ + 1, !.pc = "item"]
       ELSE InvPassThrough(got, IF translated = NoText
                                THEN rec.consecutiveFailures + 1
                                ELSE rec.consecutiveFailures)

\* dispatch(config, categoryIds) is called: loadLocalFilter, the adapters
I_Enter(r) ==
    /\ inv[r].pc = "idle"
    /\ inv' = [inv EXCEPT ![r].pc = "category"]
    /\ UNCHANGED dedupSeen

\* head of the category loop, up to the GitHub fetch or the source loop
I_Category(r) ==
    LET rec == inv[r]
    IN /\ rec.pc = "category"
       /\ IF rec.cIdx > Len(rec.ids)
          THEN /\ inv' = [inv EXCEPT ![r].pc = "done"]
               /\ UNCHANGED dedupSeen
          ELSE IF ~IsKnownCategory(rec.ids[rec.cIdx])
          THEN /\ inv' = [inv EXCEPT ![r] = InvToNextCategory(rec)]
               /\ UNCHANGED dedupSeen
          ELSE IF isGithubCategory(InvCategory(rec))
          THEN /\ inv' = [inv EXCEPT ![r] =
                             [rec EXCEPT !.pc = "fetchGithub",
                                         !.fetched = <<>>, !.kept = <<>>,
                                         !.inflight = @ \cup {FetchOp(1)}]]
               /\ UNCHANGED dedupSeen
          ELSE /\ inv' = [inv EXCEPT ![r] =
                             [rec EXCEPT !.pc = "source", !.sIdx = 1,
                                         !.groups = <<>>,
                                         !.fetched = <<>>, !.kept = <<>>]]
               /\ dedupSeen' = [dedupSeen EXCEPT ![DedupOwner(r)] = <<>>]

\* GitHub branch: await fetchGithubTrending, filter, then translate or format
I_GithubFetched(r, items) ==
    LET rec == inv[r]
        back == [rec EXCEPT !.inflight = @ \ {FetchOp(1)}]
        filtered == applyKeywordFilter(items, InvLocalFilter)
    IN /\ rec.pc = "fetchGithub"
       /\ inv' = [inv EXCEPT ![r] =
                     IF Len(filtered) = 0 THEN InvToNextCategory(back)
                     ELSE IF InvTranslate THEN InvTBegin(back, filtered, TRUE)
                     ELSE InvToPost(back, <<formatGithubMarkdown(filtered)>>)]
       /\ UNCHANGED dedupSeen

\* head of the source loop: start the fetch of the next source, or leave
\* the loop and format
I_Source(r) ==
    LET rec == inv[r]
        category == InvCategory(rec)
    IN /\ rec.pc = "source"
       /\ inv' = [inv EXCEPT ![r] =
                     IF rec.sIdx > Len(category.sources)
                     THEN IF Len(rec.groups) = 0
                          THEN InvToNextCategory(rec)
                          ELSE InvToPost(rec, formatNewsMessages(rec.groups,
                                   DefaultMaxSourcesPerMsg, DefaultMaxChars))
                     ELSE [rec EXCEPT !.pc = "fetch",
                              !.inflight = @ \cup
                                  {FetchOp(k) : k \in FetchesStarted(category, rec.sIdx)}]]
       /\ UNCHANGED dedupSeen

\* the fetch of source sIdx is back: keyword filter, deduplication, and
\* translate or push the group
I_Fetched(r, items) ==
    LET rec == inv[r]
        source == InvCategory(rec).sources[rec.sIdx]
        filtered == IF Len(items) = 0 THEN <<>>
                    ELSE applyKeywordFilter(items, InvLocalFilter)
        res == DedupFilter(dedupSeen[DedupOwner(r)], filtered)
        back == [rec EXCEPT !.inflight = @ \ {FetchOp(rec.sIdx)},
                            !.fetched = Append(@, items)]
        deduped == [back EXCEPT !.kept = Append(@, res.result)]
    IN /\ rec.pc = "fetch"
       /\ IF Len(filtered) = 0
          THEN /\ inv' = [inv EXCEPT ![r] = [back EXCEPT !.sIdx = @ + 1, !.pc = "source"]]
               /\ UNCHANGED dedupSeen
          ELSE /\ dedupSeen' = [dedupSeen EXCEPT ![DedupOwner(r)] = res.seen]
               /\ inv' = [inv EXCEPT ![r] =
                     IF SourceSkipped(filtered, res.result)
                     THEN [deduped EXCEPT !.sIdx = @ + 1, !.pc = "source"]
                     ELSE IF InvTranslate /\ source.type = "rss"
                     THEN InvTBegin(deduped, res.result, FALSE)
                     ELSE InvPushGroup(deduped, res.result)]

\* translateTitles: top of one loop iteration up to its first await, or
\* its return to dispatch
I_Item(r) ==
    LET rec == inv[r]
    IN /\ rec.pc = "item"
       /\ inv' = [inv EXCEPT ![r] =
             IF rec.tIdx > Len(rec.tItems)
             THEN IF rec.tIsGithub
                  THEN InvToPost(rec, <<formatGithubMarkdown(rec.tResults)>>)
                  ELSE InvPushGroup(rec, rec.tResults)
             ELSE IF rec.aborted
             THEN [rec EXCEPT !.tResults = Append(@, rec.tItems[rec.tIdx]),
                              !.tIdx = @ + 1]
             ELSE IF WantsTranslation(rec.tItems[rec.tIdx], rec.tIsGithub)
             THEN IF rec.translatedCount > 0
                  THEN [rec EXCEPT !.pc = "throttle"]
                  ELSE [rec EXCEPT !.pc = "primary",
                                   !.inflight = @ \cup {ProviderOp("primary", rec.tIdx)}]
             ELSE InvPassThrough(rec, rec.consecutiveFailures)]
       /\ UNCHANGED dedupSeen

\* await sleep(THROTTLE_MS) is over: translateText starts
I_Throttle(r) ==
    /\ inv[r].pc = "throttle"
    /\ inv' = [inv EXCEPT ![r].pc = "primary",
                          ![r].inflight = @ \cup {ProviderOp("primary", inv[r].tIdx)}]
    /\ UNCHANGED dedupSeen

\* translateText: the primary request is back
I_Primary(r, out) ==
    LET rec == inv[r]
        back == [rec EXCEPT !.inflight = @ \ {ProviderOp("primary", rec.tIdx)}]
    IN /\ rec.pc = "primary"
       /\ inv' = [inv EXCEPT ![r] =
             IF PrimaryGaveText(out)
             THEN InvAfterTranslateText(back, out.text)
             ELSE [back EXCEPT !.pc = "fallback",
                               !.inflight = @ \cup {ProviderOp("fallback", rec.tIdx)}]]
       /\ UNCHANGED dedupSeen

\* translateText: the fallback request is back
I_Fallback(r, out) ==
    LET rec == inv[r]
        back == [rec EXCEPT !.inflight = @ \ {ProviderOp("fallback", rec.tIdx)}]
    IN /\ rec.pc = "fallback"
       /\ inv' = [inv EXCEPT ![r] = InvAfterTranslateText(back, FallbackResult(out))]
       /\ UNCHANGED dedupSeen

\* heads of the webhook loop and of the message loop, up to the POST
I_Post(r) ==
    LET rec == inv[r]
        category == InvCategory(rec)
    IN /\ rec.pc = "post"
       /\ inv' = [inv EXCEPT ![r] =
             IF rec.wIdx > Len(category.webhooks)
             THEN InvToNextCategory(rec)
             ELSE IF category.webhooks[rec.wIdx] \notin InvWebhooks
                     \/ rec.mIdx > Len(rec.messages)
             THEN [rec EXCEPT !.wIdx = @ + 1, !.mIdx = 1]
             ELSE [rec EXCEPT !.pc = "send",
                              !.inflight = @ \cup {PostOp(rec.wIdx, rec.mIdx)}]]
       /\ UNCHANGED dedupSeen

\* await adapter.sendMarkdown(msg) is over, with or without an exception
I_Sent(r, ok) ==
    LET rec == inv[r]
    IN /\ rec.pc = "send"
       /\ inv' = [inv EXCEPT ![r] =
             [rec EXCEPT !.inflight = @ \ {PostOp(rec.wIdx, rec.mIdx)},
                         !.sent = Append(@, [cat |-> rec.cIdx, w |-> rec.wIdx,
                                             m |-> rec.mIdx,
                                             msg |-> rec.messages[rec.mIdx]]),
                         !.pc = "pause"]]
       /\ UNCHANGED dedupSeen

\* await sleep(1000) is over
I_Paused(r) ==
    /\ inv[r].pc = "pause"
    /\ inv' = [inv EXCEPT ![r].mIdx = @ + 1, ![r].pc = "post"]
    /\ UNCHANGED dedupSeen

\* the text of the translateText call invocation r is waiting for
InvCurrentText(r) ==
    IF inv[r].tIdx \in DOMAIN inv[r].tItems
    THEN TargetText(inv[r].tItems[inv[r].tIdx], inv[r].tIsGithub)
    ELSE <<>>

\* what the fetch invocation r is waiting for can return
InvFetchResults(r) ==
    IF inv[r].pc \in {"fetch", "fetchGithub"}
    THEN FetchResults(InvCategory(inv[r]), inv[r].sIdx)
    ELSE {}

InitInvocations ==
    /\ TIdle
    /\ seen = <<>>
    /\ unique = <<>>
    /\ dLog = <<>>
    /\ DIdle
    /\ UIdle
    /\ CIdle
    /\ LIdle
    /\ SIdle
    /\ inv \in [Invocations -> {NotStarted(ids) : ids \in InvocationIdLists}]
    /\ dedupSeen = [r \in Invocations |-> <<>>]

\* the other specifications' variables stay as they are
InvFrame == UNCHANGED <<tvars, dvars, pvars, uvars, cvars, lvars, svars>>

NextInvocations ==
    \/ \E r \in Invocations : I_Enter(r) /\ InvFrame
    \/ \E r \in Invocations : I_Category(r) /\ InvFrame
    \/ \E r \in Invocations : \E items \in InvFetchResults(r) :
           I_GithubFetched(r, items) /\ InvFrame
    \/ \E r \in Invocations : I_Source(r) /\ InvFrame
    \/ \E r \in Invocations : \E items \in InvFetchResults(r) :
           I_Fetched(r, items) /\ InvFrame
    \/ \E r \in Invocations : I_Item(r) /\ InvFrame
    \/ \E r \in Invocations : I_Throttle(r) /\ InvFrame
    \/ \E r \in Invocations : \E out \in ProviderOutcomes(InvCurrentText(r)) :
           I_Primary(r, out) /\ InvFrame
    \/ \E r \in Invocations : \E out \in ProviderOutcomes(InvCurrentText(r)) :
           I_Fallback(r, out) /\ InvFrame
    \/ \E r \in Invocations : I_Post(r) /\ InvFrame
    \/ \E r \in Invocations, ok \in BOOLEAN : I_Sent(r, ok) /\ InvFrame
    \/ \E r \in Invocations : I_Paused(r) /\ InvFrame

SpecInvocations == InitInvocations /\ [][NextInvocations]_vars

(***************************************************************************)
(* SpecCjk: needsTranslation's cjkPattern and extractTokens on the same    *)
(* text.                                                                   *)
(***************************************************************************)
\* longest text given to the two functions
MaxText == 2

\* most CJK characters, other meaningful characters and other characters
\* in a text given to needsTranslation
MaxCjk == 4
MaxLetters == 10
MaxOther == 2

\* text.match(cjkPattern): the matches, in order
CjkMatches(text) == SelectSeq(text, IsTranslatorCjk)

\* code units at and next to the ends of the ranges of both patterns, with
\* a letter and a digit
BoundaryChars ==
    {97, 49, 13311, 13312, 19903, 19904, 19967, 19968, 40959, 40960,
     63743, 63744, 64255, 64256}

\* the helpers are not running
HelpersIdle ==
    /\ TIdle
    /\ seen = <<>>
    /\ unique = <<>>
    /\ dLog = <<>>
    /\ DIdle
    /\ UIdle
    /\ RIdle
    /\ LIdle
    /\ SIdle

InitCjk ==
    /\ HelpersIdle
    /\ cArgs \in [text : SeqsUpTo(BoundaryChars, MaxText)]
    /\ cResult = None

CjkCall ==
    /\ cArgs # None
    /\ cResult = None
    /\ cResult' = Returned([cjkMatches |-> CjkMatches(cArgs.text),
                             tokens |-> extractTokens(cArgs.text)])
    /\ UNCHANGED <<cArgs, tvars, dvars, pvars, uvars, rvars, lvars, svars>>

NextCjk == CjkCall

SpecCjk == InitCjk /\ [][NextCjk]_vars

(***************************************************************************)
(* SpecJaccard: TitleDeduplicator.jaccard on any two token sets.           *)
(***************************************************************************)
\* the tokens of "中国", "gpt new"
TokenPool == extractTokens(ZhShort) \cup extractTokens(EnTitle)

InitJaccard ==
    /\ HelpersIdle
    /\ cArgs \in [a : SUBSET TokenPool, b : SUBSET TokenPool]
    /\ cResult = None

JaccardCall ==
    /\ cArgs # None
    /\ cResult = None
    /\ cResult' = Returned(jaccard(cArgs.a, cArgs.b))
    /\ UNCHANGED <<cArgs, tvars, dvars, pvars, uvars, rvars, lvars, svars>>

NextJaccard == JaccardCall

SpecJaccard == InitJaccard /\ [][NextJaccard]_vars

(***************************************************************************)
(* SpecNeeds: needsTranslation on texts with a known number of CJK         *)
(* characters, of letters and of characters that do not count.             *)
(***************************************************************************)
\* characters of the three ranges of cjkPattern
CjkSamples == <<20013, 13312, 63744, 40959, 19903>>

\* a space, a digit, a punctuation mark, a symbol, a CJK full stop
OtherSamples == <<32, 49, 33, 43, 12290>>

\* a text of c CJK characters, l Latin letters and o characters that are
\* whitespace, digits, punctuation or symbols, mixed
MixedText(c, l, o) ==
    [i \in 1..o |-> OtherSamples[((i - 1) % Len(OtherSamples)) + 1]]
        \o [i \in 1..l |-> 97 + ((i - 1) % 26)]
        \o [i \in 1..c |-> CjkSamples[((i - 1) % Len(CjkSamples)) + 1]]

InitNeeds ==
    /\ HelpersIdle
    /\ cArgs \in {[cjk |-> c, letters |-> l, others |-> o, text |-> MixedText(c, l, o)] :
                     c \in 0..MaxCjk, l \in 0..MaxLetters, o \in 0..MaxOther}
    /\ cResult = None

NeedsCall ==
    /\ cArgs # None
    /\ cResult = None
    /\ cResult' = Returned(needsTranslation(cArgs.text))
    /\ UNCHANGED <<cArgs, tvars, dvars, pvars, uvars, rvars, lvars, svars>>

NextNeeds == NeedsCall

SpecNeeds == InitNeeds /\ [][NextNeeds]_vars

(***************************************************************************)
(* scheduler.ts: startScheduler and the callbacks it registers with        *)
(* cron.schedule (SpecScheduler).  A callback runs up to the await of      *)
(* dispatch in one step; dispatch settles later, other triggers between.   *)
(***************************************************************************)
\* rules in config.schedule
MaxRules == 2
\* triggers in one run of the process
MaxTriggers == 3

\* "0 9 * * *" and an expression cron.validate rejects
ValidCron == "0 9 * * *"
InvalidCron == "every morning"

\* cron.validate of node-cron
CronValidate(expr) == expr = ValidCron

\* the entries of config.schedule
ScheduleRules ==
    [cron : {ValidCron, InvalidCron}, categories : {<<"tech">>, <<"gh">>}]

\* the configuration file: two valid contents, and one loadConfig rejects
ConfigFiles == {"config A", "config B", "broken"}

\* a call threw
Threw == [threw |-> TRUE]

\* loadConfig: the parsed content, or the error of a missing or invalid file
loadConfig(file) == IF file = "broken" THEN Threw ELSE Returned(file)

\* the process after the callback's try block threw, with the catch removed:
\* the rejection of the async callback is unhandled
SchedulerErrorEscapes(process) == "crashed"

\* the process after the callback's try block threw: the catch logs the
\* message and the callback returns
SchedulerErrorCaught(process) == process

\* the rules cron.validate accepts, among the first n
ValidRules(n) == {i \in 1..n : CronValidate(schedule[i].cron)}

\* startScheduler up to the loop: the initial loadConfig, and exit(1) on an
\* empty schedule
S_Start ==
    /\ schedPc = "start"
    /\ IF loadConfig(configFile) = Threw
       THEN schedPc' = "threw" /\ UNCHANGED ruleIdx
       ELSE IF schedule = <<>>
            THEN schedPc' = "exited" /\ UNCHANGED ruleIdx
            ELSE schedPc' = "rules" /\ ruleIdx' = 1
    /\ UNCHANGED <<schedule, jobs, configFile, triggers>>

\* one iteration of the loop over config.schedule; after the last rule the
\* signal handlers are installed and startScheduler returns
S_Rule ==
    /\ schedPc = "rules"
    /\ jobs' = IF CronValidate(schedule[ruleIdx].cron)
               THEN jobs \cup {ruleIdx}
               ELSE jobs
    /\ ruleIdx' = ruleIdx + 1
    /\ schedPc' = IF ruleIdx = Len(schedule) THEN "running" ELSE "rules"
    /\ UNCHANGED <<schedule, configFile, triggers>>

\* node-cron calls the callback of rule i: the configuration is reloaded
\* and dispatch is called, or the error of the reload is caught
S_Trigger(i) ==
    /\ schedPc = "running"
    /\ i \in jobs
    /\ Len(triggers) < MaxTriggers
    /\ LET freshConfig == loadConfig(configFile)
       IN IF freshConfig = Threw
          THEN /\ triggers' = Append(triggers,
                     [rule |-> i, file |-> configFile, dispatched |-> None,
                      state |-> "caught"])
               /\ schedPc' = SchedulerErrorCaught(schedPc)
          ELSE /\ triggers' = Append(triggers,
                     [rule |-> i, file |-> configFile,
                      dispatched |-> [config |-> freshConfig.value,
                                      categories |-> schedule[i].categories],
                      state |-> "dispatching"])
               /\ UNCHANGED schedPc
    /\ UNCHANGED <<schedule, ruleIdx, jobs, configFile>>

\* the dispatch a callback awaits returns, or throws and is caught
S_DispatchSettles(k, threw) ==
    /\ schedPc = "running"
    /\ k \in 1..Len(triggers)
    /\ triggers[k].state = "dispatching"
    /\ IF threw
       THEN /\ triggers' = [triggers EXCEPT ![k].state = "caught"]
            /\ schedPc' = SchedulerErrorCaught(schedPc)
       ELSE /\ triggers' = [triggers EXCEPT ![k].state = "done"]
            /\ UNCHANGED schedPc
    /\ UNCHANGED <<schedule, ruleIdx, jobs, configFile>>

\* the user edits, breaks or repairs the configuration file
S_EditConfig(file) ==
    /\ schedPc = "running"
    /\ file # configFile
    /\ configFile' = file
    /\ UNCHANGED <<schedPc, schedule, ruleIdx, jobs, triggers>>

\* SIGINT or SIGTERM: the shutdown handler ends the process
S_Shutdown ==
    /\ schedPc = "running"
    /\ schedPc' = "stopped"
    /\ UNCHANGED <<schedule, ruleIdx, jobs, configFile, triggers>>

InitScheduler ==
    /\ TIdle
    /\ seen = <<>>
    /\ unique = <<>>
    /\ dLog = <<>>
    /\ DIdle
    /\ UIdle
    /\ RIdle
    /\ CIdle
    /\ LIdle
    /\ schedPc = "start"
    /\ schedule \in SeqsUpTo(ScheduleRules, MaxRules)
    /\ ruleIdx = 0
    /\ jobs = {}
    /\ configFile \in ConfigFiles
    /\ triggers = <<>>

SchedulerFrame == UNCHANGED <<tvars, dvars, pvars, uvars, rvars, cvars, lvars>>

NextScheduler ==
    \/ S_Start /\ SchedulerFrame
    \/ S_Rule /\ SchedulerFrame
    \/ \E i \in 1..MaxRules : S_Trigger(i) /\ SchedulerFrame
    \/ \E k \in 1..MaxTriggers : \E threw \in BOOLEAN :
           S_DispatchSettles(k, threw) /\ SchedulerFrame
    \/ \E file \in ConfigFiles : S_EditConfig(file) /\ SchedulerFrame
    \/ S_Shutdown /\ SchedulerFrame

SpecScheduler == InitScheduler /\ [][NextScheduler]_vars

(***************************************************************************)
(* Properties of translateTitles and translateText (SpecTranslate).        *)
(***************************************************************************)
\* new is `${old}（…）` with a non-empty text between the parentheses
IsAugmentedOf(new, old) ==
    /\ Len(new) >= Len(old) + 3
    /\ SubSeq(new, 1, Len(old)) = old
    /\ new[Len(old) + 1] = 65288
    /\ new[Len(new)] = 65289

\* res is item itself, or item with only the target text augmented
IsItemOrAugmented(res, item, isGithub) ==
    \/ res = item
    \/ /\ ~isGithub
       /\ res = [item EXCEPT !.title = res.title]
       /\ IsAugmentedOf(res.title, item.title)
    \/ /\ isGithub
       /\ res = [item EXCEPT !.desc = res.desc]
       /\ IsAugmentedOf(res.desc, item.desc)

\* C1: translateTitles returns, whatever the providers do, a list of the
\* same length and order as its input in which position i holds input item
\* i or that item with only its title (GitHub mode: only its description)
\* replaced by the augmented text; the results built so far always are such
\* a prefix.
C1_SameItemsOrAugmented ==
    /\ tPc \in {"idle", "loop", "sleep", "primary", "fallback", "done"}
    /\ Len(tResults) <= Len(tItems)
    /\ \A i \in DOMAIN tResults : IsItemOrAugmented(tResults[i], tItems[i], tIsGithub)
    /\ tPc = "done" => Len(tResults) = Len(tItems)

\* a finished call on three items with a translated item, a provider
\* exception and an item passed through
C1_Witness ==
    /\ tPc = "done"
    /\ Len(tItems) = 3
    /\ \E i \in DOMAIN tResults : tResults[i] # tItems[i]
    /\ \E i \in DOMAIN tResults : tResults[i] = tItems[i]
    /\ tAttempt.f = "throw"

\* C2: from the moment the consecutive-failure counter is at the threshold,
\* no step of the call makes a provider call (or a pacing delay), and every
\* item the loop passes is pushed unchanged.
C2_BreakerStopsCalls ==
    [][consecutiveFailures >= MAX_CONSECUTIVE_FAILURES =>
          /\ tCalls' = tCalls
          /\ tIdx' # tIdx => tResults' = Append(tResults, tItems[tIdx])
          /\ consecutiveFailures' = consecutiveFailures]_vars

\* the breaker tripped on the first two items and the third, which needs
\* translation, came back unchanged without any provider call for it
C2_Witness ==
    /\ tPc = "done"
    /\ Len(tItems) = 3
    /\ consecutiveFailures = MAX_CONSECUTIVE_FAILURES
    /\ WantsTranslation(tItems[3], tIsGithub)
    /\ tResults[3] = tItems[3]
    /\ \A k \in DOMAIN tCalls : tCalls[k].idx # 3

\* C3: translateText asks the primary provider first and the fallback only
\* after the primary gave no text or threw; it returns null exactly when
\* both providers failed, and otherwise the text of the first provider
\* that gave one.
C3_PrimaryThenFallback ==
    /\ \A k \in DOMAIN tCalls :
          tCalls[k].op = "fallback" =>
              /\ k > 1
              /\ tCalls[k - 1].op = "primary"
              /\ tCalls[k - 1].idx = tCalls[k].idx
    /\ tAttempt.f # "none" => tAttempt.p \in {"null", "throw"}
    /\ tAttempt.p = "ok" => (tAttempt.f = "none" /\ tAttempt.ret = "text")
    /\ tAttempt.ret = "null" <=>
          (tAttempt.p \in {"null", "throw"} /\ tAttempt.f \in {"null", "throw"})
    /\ tAttempt.ret = "text" => tAttempt.text # NoText
    /\ tPc = "fallback" => tAttempt.p \in {"null", "throw"}

\* translateText returned the fallback's text after the primary threw
C3_Witness ==
    /\ tAttempt.p = "throw"
    /\ tAttempt.f = "ok"
    /\ tAttempt.ret = "text"
    /\ Len(tCalls) >= 2

(***************************************************************************)
(* Properties of TitleDeduplicator.filter (SpecDedup).                     *)
(***************************************************************************)
\* the items of the history that filter kept before entry k
KeptBefore(log, k) == {j \in 1..(k - 1) : log[j].kept}

\* similarity of two titles at or above the default threshold: both token
\* sets non-empty and 2 * |A \cap B| >= |A \cup B|
Similar(t1, t2) ==
    LET a == extractTokens(t1)
        b == extractTokens(t2)
    IN /\ a # {}
       /\ b # {}
       /\ ThresholdDen * Cardinality(a \cap b) >= ThresholdNum * Cardinality(a \cup b)

Duplicates(x, y) == x.link = y.link \/ Similar(x.title, y.title)

RECURSIVE KeptItems(_)
KeptItems(log) ==
    IF log = <<>> THEN <<>>
    ELSE LET rest == KeptItems(SubSeq(log, 1, Len(log) - 1))
             last == log[Len(log)]
         IN IF last.kept THEN Append(rest, last.item) ELSE rest

InNewsCategory ==
    /\ pc \in {"fetch", "translate", "send", "sleep"}
    /\ ~isGithubCategory(Category)

\* C5: the deduplicator of a category holds exactly the items kept from the
\* sources of this category so far, the sources are filtered in configured
\* order, of two duplicates from different sources the earlier source's is
\* kept and the later one dropped, and an item is dropped only for a
\* duplicate kept earlier in the same category (never for an item another
\* category accepted).
C5_DedupStatePerCategory ==
    InNewsCategory =>
        /\ \A j, k \in DOMAIN dLog : j < k => dLog[j].call <= dLog[k].call
        /\ \A k \in DOMAIN dLog : dLog[k].call <= sIdx
        /\ {seen[i].link : i \in DOMAIN seen} =
               {dLog[k].item.link : k \in {j \in DOMAIN dLog : dLog[j].kept}}
        /\ \A j, k \in DOMAIN dLog :
              /\ dLog[j].call < dLog[k].call
              /\ dLog[j].kept
              /\ Duplicates(dLog[j].item, dLog[k].item)
              => ~dLog[k].kept
        /\ \A k \in DOMAIN dLog :
              ~dLog[k].kept =>
                  \E j \in KeptBefore(dLog, k) : Duplicates(dLog[j].item, dLog[k].item)

\* in the second visited category an item is kept whose link an earlier
\* category kept, and a later source's duplicate of an earlier source's
\* item has been dropped
C5_Witness ==
    /\ InNewsCategory
    /\ Len(visited) >= 2
    /\ \E k \in DOMAIN dLog : dLog[k].kept /\ dLog[k].item.link \in priorKept
    /\ \E k \in DOMAIN dLog : \E j \in KeptBefore(dLog, k) :
          /\ dLog[j].call < dLog[k].call
          /\ ~dLog[k].kept
          /\ Duplicates(dLog[j].item, dLog[k].item)

\* the source loop of a non-GitHub category is over and formatNewsMessages
\* is about to be called
HandedToFormatter ==
    /\ pc = "fetch"
    /\ sIdx > Len(Category.sources)
    /\ groups # <<>>

\* the items of group g as the deduplicator kept them, before translation
GroupOriginals(g) == KeptItems(SelectSeq(dLog, LAMBDA e : e.call = groupSrc[g]))

\* what the fetch of the source of group g returned
GroupFetched(g) ==
    LET e == CHOOSE k \in DOMAIN srcLog : srcLog[k].src = groupSrc[g]
    IN srcLog[e].fetched

GroupPositions ==
    UNION {{<<g, i>> : i \in DOMAIN groups[g].items} : g \in DOMAIN groups}

IsSubsequence(sub, full) ==
    \E f \in [DOMAIN sub -> DOMAIN full] :
        /\ \A i \in DOMAIN sub : full[f[i]] = sub[i]
        /\ \A i, j \in DOMAIN sub : i < j => f[i] < f[j]

HasKeyword(item) ==
    \E k \in DOMAIN localFilter :
        \/ Includes(item.title, localFilter[k])
        \/ Includes(item.desc, localFilter[k])

\* distinct links, dissimilar untranslated titles and source order of the
\* groups handed to the formatter
GroupsUniqueInSourceOrder ==
    /\ Len(groupSrc) = Len(groups)
    /\ \A g \in DOMAIN groups :
          /\ Len(groups[g].items) = Len(GroupOriginals(g))
          /\ \A i \in DOMAIN groups[g].items :
                IsItemOrAugmented(groups[g].items[i], GroupOriginals(g)[i], FALSE)
          /\ IsSubsequence(GroupOriginals(g), GroupFetched(g))
    /\ \A p, q \in GroupPositions :
          p # q =>
              /\ groups[p[1]].items[p[2]].link # groups[q[1]].items[q[2]].link
              /\ ~Similar(GroupOriginals(p[1])[p[2]].title,
                          GroupOriginals(q[1])[q[2]].title)

\* C6 (as stated): the groups handed to the formatter have pairwise distinct
\* links and pairwise dissimilar untranslated titles, keep the order the
\* source returned, and no item's title or description, as handed over,
\* contains a blocked keyword.
C6_GroupsCleanAsHanded ==
    HandedToFormatter =>
        /\ GroupsUniqueInSourceOrder
        /\ \A p \in GroupPositions : ~HasKeyword(groups[p[1]].items[p[2]])

\* C6 (amended): as above, with the keyword condition on the items as the
\* source returned them: no item's untranslated title or description
\* contains a blocked keyword.
C6_GroupsCleanBeforeTranslation ==
    HandedToFormatter =>
        /\ GroupsUniqueInSourceOrder
        /\ \A p \in GroupPositions : ~HasKeyword(GroupOriginals(p[1])[p[2]])

\* two groups are handed over after the keyword filter removed an item, the
\* deduplicator dropped an item of the second source and a title was
\* translated
C6_Witness ==
    /\ HandedToFormatter
    /\ Len(groups) = 2
    /\ localFilter # <<>>
    /\ \E k \in DOMAIN srcLog : Len(srcLog[k].filtered) < Len(srcLog[k].fetched)
    /\ \E k \in DOMAIN dLog : ~dLog[k].kept /\ dLog[k].call = 2
    /\ \E p \in GroupPositions :
          groups[p[1]].items[p[2]] # GroupOriginals(p[1])[p[2]]

\* dispatch is in the webhook loop of a category
Sending == pc \in {"send", "sleep"}

\* the webhook loop of the category has run to its end
WebhookLoopOver ==
    /\ pc = "send"
    /\ wIdx > Len(Category.webhooks)

SendEntries == SelectSeq(netLog, LAMBDA e : e.op = "send")

KnownWebhookAt(w) == Category.webhooks[w] \in webhookAdapters

Attempts(w, m) ==
    Cardinality({i \in DOMAIN SendEntries :
                    SendEntries[i].w = w /\ SendEntries[i].m = m})

\* (w, m) comes before the position the two loops are at
LoopIsPast(w, m) == w < wIdx \/ (w = wIdx /\ m < mIdx)

\* C7: whatever sends have failed, every (message, known webhook) pair the
\* loops have passed has been attempted exactly once and no other pair has
\* been attempted; at the end of the webhook loop that is every pair.
C7_EachPairAttemptedOnce ==
    Sending =>
        \A w \in DOMAIN Category.webhooks : \A m \in DOMAIN messages :
            Attempts(w, m) = IF KnownWebhookAt(w) /\ LoopIsPast(w, m) THEN 1 ELSE 0

\* the loop is over for two known webhooks and two messages, and the first
\* send of each webhook had failed
C7_Witness ==
    /\ WebhookLoopOver
    /\ Len(messages) = 2
    /\ Len(SendEntries) = 4
    /\ ~SendEntries[1].ok
    /\ ~SendEntries[3].ok
    /\ SendEntries[2].ok

AllWebhookTypesSupported ==
    \A k \in DOMAIN config.webhooks : IsSupportedWebhookType(config.webhooks[k].type)

\* the positions of categoryIds that hold a configured category id, among
\* the first n
KnownCategoryPositions(n) ==
    SelectSeq([i \in 1..n |-> i], LAMBDA i : IsKnownCategory(categoryIds[i]))

NoExceptionEscapes ==
    /\ pc # "threw"
    /\ pc = "done" => visited = KnownCategoryPositions(Len(categoryIds))

\* C8 (as stated): for every configuration, any webhook type included, no
\* exception escapes dispatch and a run that returns has processed every
\* requested category.
C8_NoErrorAbortsDispatch == NoExceptionEscapes

\* C8 (amended): the same for every configuration whose webhooks all have a
\* supported type (wps-teams or wecom).
C8_NoErrorAbortsWithSupportedTypes ==
    AllWebhookTypesSupported => NoExceptionEscapes

\* a run has returned after a failure in its first category and has
\* processed a later category as well
C8_Witness ==
    /\ pc = "done"
    /\ AllWebhookTypesSupported
    /\ Len(visited) = 2
    /\ visited[1] \in failedAt

\* C9: no fetch and no send belongs to an unknown category id and the
\* categories visited are all the known ids up to the loop position; no
\* message is sent to a webhook id without adapter, and every known webhook
\* the loop has passed has received every message.
C9_UnknownIdsAreSkipped ==
    /\ \A k \in DOMAIN netLog : IsKnownCategory(categoryIds[netLog[k].cat])
    /\ pc \in {"category", "done"} => visited = KnownCategoryPositions(cIdx - 1)
    /\ pc \in {"fetchGithub", "fetch", "translate", "send", "sleep"} =>
           visited = KnownCategoryPositions(cIdx)
    /\ Sending =>
           \A w \in DOMAIN Category.webhooks :
               /\ ~KnownWebhookAt(w) => \A m \in DOMAIN messages : Attempts(w, m) = 0
               /\ KnownWebhookAt(w) /\ w < wIdx =>
                      \A m \in DOMAIN messages : Attempts(w, m) >= 1

\* after an unknown category id the next category is in its webhook loop,
\* an unknown webhook id has been skipped and the webhook after it has
\* received the messages
C9_Witness ==
    /\ WebhookLoopOver
    /\ \E i \in 1..(cIdx - 1) : ~IsKnownCategory(categoryIds[i])
    /\ \E w \in DOMAIN Category.webhooks :
          /\ ~KnownWebhookAt(w)
          /\ w + 1 \in DOMAIN Category.webhooks
          /\ KnownWebhookAt(w + 1)
          /\ \A m \in DOMAIN messages : Attempts(w + 1, m) = 1

KnownWebhooks ==
    SelectSeq([w \in DOMAIN Category.webhooks |-> w], LAMBDA w : KnownWebhookAt(w))

\* (w1,m1),(w1,m2),...,(w1,mn),(w2,m1),...,(wk,mn)
ExpectedSends ==
    [i \in 1..(Len(KnownWebhooks) * Len(messages)) |->
        [w |-> KnownWebhooks[((i - 1) \div Len(messages)) + 1],
         m |-> ((i - 1) % Len(messages)) + 1]]

SentPairs == [i \in DOMAIN SendEntries |-> [w |-> SendEntries[i].w, m |-> SendEntries[i].m]]

\* C10: the sends of a category happen in webhook-list order and, within a
\* webhook, in message order: what has been sent is always an initial part
\* of (w1,m1),...,(w1,mn),(w2,m1),...,(wk,mn), and all of it when the
\* webhook loop ends.
C10_WebhookMajorSendOrder ==
    Sending =>
        /\ Len(SentPairs) <= Len(ExpectedSends)
        /\ \A i \in DOMAIN SentPairs : SentPairs[i] = ExpectedSends[i]
        /\ WebhookLoopOver => Len(SentPairs) = Len(ExpectedSends)

\* two messages have gone to two known webhooks
C10_Witness ==
    /\ WebhookLoopOver
    /\ Len(messages) = 2
    /\ Len(KnownWebhooks) = 2
    /\ Len(SentPairs) = 4
    /\ SentPairs[2] = [w |-> KnownWebhooks[1], m |-> 2]
    /\ SentPairs[3] = [w |-> KnownWebhooks[2], m |-> 1]

\* C11: in the history of a category every send, resolved or thrown, is
\* followed by the 1000 ms delay and by nothing else; while a send is the
\* last network step, dispatch is at that delay, so neither the next send
\* nor the next category starts before it.
C11_DelayAfterEverySend ==
    \A i \in DOMAIN netLog :
        netLog[i].op = "send" =>
            IF i = Len(netLog)
            THEN pc = "sleep"
            ELSE /\ netLog[i + 1].op = "sleep"
                 /\ netLog[i + 1].w = SEND_DELAY_MS

\* the webhook loop of a category has ended on a failed send and its
\* delay, after a failed and a successful send each followed by the delay
C11_Witness ==
    /\ pc = "category"
    /\ Len(netLog) >= 6
    /\ netLog[Len(netLog)].op = "sleep"
    /\ netLog[Len(netLog) - 1].op = "send"
    /\ ~netLog[Len(netLog) - 1].ok
    /\ \E i \in DOMAIN netLog : netLog[i].op = "send" /\ netLog[i].ok
    /\ \E i \in 1..(Len(netLog) - 2) :
          netLog[i].op = "send" /\ ~netLog[i].ok /\ netLog[i + 2].op = "send"

(***************************************************************************)
(* Properties of formatNewsMessages (SpecFormat)                           *)
(***************************************************************************)
FormatReturned == fArgs # None /\ fMessages # None

\* groups.filter((g) => g.items.length > 0) of the call's argument
FormatNonEmpty == SelectSeq(fArgs.groups, LAMBDA g : Len(g.items) > 0)

RECURSIVE FlattenSections(_)
\* the section lists of the messages, one after the other
FlattenSections(msgs) ==
    IF msgs = <<>> THEN <<>>
    ELSE Head(msgs).sections \o FlattenSections(Tail(msgs))

\* C12: the section lists of the returned messages, concatenated, are the
\* non-empty groups of the input in input order: every section is one whole
\* group and lies in exactly one message, whatever its length.
C12_SectionsNeverSplit ==
    FormatReturned => FlattenSections(fMessages.value) = FormatNonEmpty

\* a call with a budget of 118 whose input holds an empty group and a group
\* whose section alone is 2220 long, answered with three messages or more
C12_Witness ==
    /\ FormatReturned
    /\ fArgs.maxChars < SectionLength(GroupLong)
    /\ \E i \in DOMAIN fArgs.groups : fArgs.groups[i] = GroupEmpty
    /\ \E i \in DOMAIN fArgs.groups : fArgs.groups[i] = GroupLong
    /\ Len(fMessages.value) >= 3

\* currentLength after the first j sections of a message
RunningLength(msg, j) == SectionsLength(SubSeq(msg.sections, 1, j)) + 2 * j

\* maxChars - footer.length - 30
CharBudget == fArgs.maxChars - FooterLength - 30

\* adding section `next` to a message holding the first j sections of msg
\* would exceed the character budget
OverBudget(msg, j, next) == RunningLength(msg, j) + SectionLength(next) + 2 > CharBudget

C14_MessagesWithinMaxChars ==
    FormatReturned =>
        \A k \in DOMAIN fMessages.value :
            Len(fMessages.value[k].sections) >= 2 =>
                MessageLength(fArgs.categoryName, fMessages.value[k]) <= fArgs.maxChars

\* C15: the first returned message carries the plain header and every later
\* one the continuation header, the same for all of them.
C15_PlainHeaderThenContinuation ==
    FormatReturned =>
        \A k \in DOMAIN fMessages.value : fMessages.value[k].cont <=> k > 1

\* a call answered with three messages or more
C15_Witness ==
    /\ FormatReturned
    /\ Len(fMessages.value) >= 3
    /\ ~fMessages.value[1].cont
    /\ fMessages.value[3].cont

\* C16 (as stated): every returned message ends with the footer, the
\* message for an input without items included.
C16_EveryMessageHasFooter ==
    FormatReturned => \A k \in DOMAIN fMessages.value : fMessages.value[k].footer

\* C16 (amended): every message returned for an input with a non-empty
\* group ends with the footer; for an input in which no group has an item
\* the one message returned has the header and the no-data line and no
\* footer.
C16_FooterUnlessNoData ==
    FormatReturned =>
        IF FormatNonEmpty # <<>>
        THEN \A k \in DOMAIN fMessages.value : fMessages.value[k].footer
        ELSE /\ Len(fMessages.value) = 1
             /\ fMessages.value[1].sections = <<>>
             /\ ~fMessages.value[1].footer

\* a call on an empty and two non-empty groups answered with two messages,
\* both ending with the footer
C16_Witness ==
    /\ FormatReturned
    /\ \E i \in DOMAIN fArgs.groups : fArgs.groups[i] = GroupEmpty
    /\ Len(fMessages.value) = 2
    /\ fMessages.value[1].footer
    /\ fMessages.value[2].footer

(***************************************************************************)
(* More properties of dispatch (Spec)                                      *)
(***************************************************************************)
\* C17: no group dispatch builds has zero items: a source contributes a
\* group only if its fetch, the keyword filter and the deduplication each
\* left an item; a non-GitHub category reaches the webhook loop only with a
\* group and a message, and none of its sends happens without a group.
C17_NoEmptyGroupNoEmptyPush ==
    /\ \A g \in DOMAIN groups : Len(groups[g].items) > 0
    /\ \A k \in DOMAIN srcLog :
          (\E g \in DOMAIN groupSrc : groupSrc[g] = srcLog[k].src) =>
              /\ srcLog[k].fetched # <<>>
              /\ srcLog[k].filtered # <<>>
              /\ \E j \in DOMAIN dLog : dLog[j].call = srcLog[k].src /\ dLog[j].kept
    /\ Sending /\ InNewsCategory => groups # <<>> /\ messages # <<>>
    /\ \A i \in DOMAIN netLog :
          /\ netLog[i].op = "send"
          /\ ~isGithubCategory(Categories[categoryIds[netLog[i].cat]])
          => groups # <<>>

\* a non-GitHub category has ended without a send: one source returned
\* nothing, the other's items were all removed by the keyword filter
C17_Witness ==
    /\ pc = "category"
    /\ groups = <<>>
    /\ Len(srcLog) = 2
    /\ \E k \in DOMAIN srcLog : srcLog[k].fetched = <<>>
    /\ \E k \in DOMAIN srcLog : srcLog[k].fetched # <<>> /\ srcLog[k].filtered = <<>>
    /\ Len(netLog) = 2
    /\ \A i \in DOMAIN netLog : netLog[i].op = "fetch"

(***************************************************************************)
(* Properties of the adapters' sendMarkdown (SpecSend)                     *)
(***************************************************************************)
SendReturned(adapter) ==
    /\ aCall # None
    /\ aContent # None
    /\ aCall.adapter = adapter

\* content is a cut of `original` followed by the marker
IsCutWithMarker(content, original, marker) ==
    /\ Len(content) >= Len(marker)
    /\ SubSeq(content, Len(content) - Len(marker) + 1, Len(content)) = marker
    /\ Len(content) - Len(marker) < Len(original)
    /\ SubSeq(original, 1, Len(content) - Len(marker))
           = SubSeq(content, 1, Len(content) - Len(marker))

\* C18: WpsTeamsWebhook.sendMarkdown posts at most 5000 characters: a text
\* of at most 5000 characters as it is, a longer one cut and followed by
\* the truncation marker.
C18_WpsPostsWithinLimit ==
    SendReturned("wps-teams") =>
        /\ Len(aContent.value) <= MAX_CONTENT_LENGTH
        /\ IF Len(aCall.text) <= MAX_CONTENT_LENGTH
           THEN aContent.value = aCall.text
           ELSE IsCutWithMarker(aContent.value, aCall.text, WpsMarker)

\* a text of 5001 characters has been cut and marked
C18_Witness ==
    /\ SendReturned("wps-teams")
    /\ Len(aCall.text) = MAX_CONTENT_LENGTH + 1
    /\ Len(aContent.value) < MAX_CONTENT_LENGTH
    /\ aContent.value # aCall.text

StartsWithMarkup(line) ==
    \/ startsWith(line, <<35, 35, 32>>)
    \/ startsWith(line, <<35, 35, 35, 32>>)
    \/ startsWith(line, <<62, 32>>)

\* C19: WecomWebhook.sendMarkdown posts at most 4096 bytes of UTF-8; the
\* limit is applied to the converted text: converted text within 4096
\* bytes is posted as converted (line for line, no header or quote line
\* left), longer converted text is cut and followed by the marker.
C19_WecomPostsWithinBytes ==
    SendReturned("wecom") =>
        LET converted == convertToWecomMarkdown(aCall.text)
        IN /\ Utf8Length(aContent.value) <= MAX_CONTENT_BYTES
           /\ IF Utf8Length(converted) <= MAX_CONTENT_BYTES
              THEN /\ aContent.value = converted
                   /\ Len(SplitLines(aContent.value)) = Len(SplitLines(aCall.text))
                   /\ \A i \in DOMAIN SplitLines(aContent.value) :
                         ~StartsWithMarkup(SplitLines(aContent.value)[i])
              ELSE IsCutWithMarker(aContent.value, converted, WecomMarker)

\* a quote line within 4096 bytes as given and beyond after the conversion
\* has been cut and marked
C19_Witness ==
    /\ SendReturned("wecom")
    /\ startsWith(aCall.text, <<62, 32>>)
    /\ Utf8Length(aCall.text) <= MAX_CONTENT_BYTES
    /\ Utf8Length(convertToWecomMarkdown(aCall.text)) > MAX_CONTENT_BYTES
    /\ IsCutWithMarker(aContent.value, convertToWecomMarkdown(aCall.text), WecomMarker)

(***************************************************************************)
(* Properties of applyKeywordFilter (SpecFilter)                           *)
(***************************************************************************)
FilterReturned == kArgs # None /\ kResult # None

\* kw is a substring of the title or of the description
InTitleOrDescription(item, kw) == Includes(item.title, kw) \/ Includes(item.desc, kw)

\* kw lies across the junction: an end of the title, the space the code
\* puts between the two, a beginning of the description
SpansJunction(item, kw) ==
    \E a \in 0..(Len(kw) - 1) :
        /\ kw[a + 1] = 32
        /\ a <= Len(item.title)
        /\ SubSeq(item.title, Len(item.title) - a + 1, Len(item.title)) = SubSeq(kw, 1, a)
        /\ startsWith(item.desc, SubSeq(kw, a + 2, Len(kw)))

\* C20 (as stated): the result is, in input order, exactly the items for
\* which no blocked keyword is a substring of the title or of the
\* description; an empty keyword list gives the input list.
C20_KeepsItemsWithoutKeyword ==
    FilterReturned =>
        /\ kResult.value =
               SelectSeq(kArgs.items,
                         LAMBDA item : \A k \in DOMAIN kArgs.blockedKeywords :
                                           ~InTitleOrDescription(item, kArgs.blockedKeywords[k]))
        /\ kArgs.blockedKeywords = <<>> => kResult.value = kArgs.items

\* C20 (amended): the result is, in input order, exactly the items for
\* which no blocked keyword is a substring of the text "title, one space,
\* description": a keyword in the title, in the description, or across the
\* space between them removes the item; matching is case-sensitive; an
\* empty keyword list gives the input list.
C20_KeepsItemsWithoutKeywordInJoinedText ==
    FilterReturned =>
        /\ kResult.value =
               SelectSeq(kArgs.items,
                         LAMBDA item : \A k \in DOMAIN kArgs.blockedKeywords :
                                           /\ ~InTitleOrDescription(item, kArgs.blockedKeywords[k])
                                           /\ ~SpansJunction(item, kArgs.blockedKeywords[k]))
        /\ kArgs.blockedKeywords = <<>> => kResult.value = kArgs.items

\* with "GPT" and the blocked character as keywords, the item titled
\* "gpt new" was kept and the items with the character in the title and in
\* the description were removed
C20_Witness ==
    /\ FilterReturned
    /\ kArgs.blockedKeywords = <<KwUpper, Keyword>>
    /\ kArgs.items = <<ItemBlocked, ItemEn, ItemDescBlocked>>
    /\ kResult.value = <<ItemEn>>

(***************************************************************************)
(* Properties of translateTitles: what a translated item is, pacing, the   *)
(* failure counter (SpecTranslate).                                        *)
(***************************************************************************)
\* the item position the latest provider request was made for
LastCallIdx == tCalls[Len(tCalls)].idx

\* a step in which translateText returns a text to translateTitles
TextReturned ==
    /\ tCalls' # tCalls
    /\ tCalls'[Len(tCalls')].op \in {"primary", "fallback"}
    /\ tAttempt'.ret = "text"

\* `${O}（${T}）`, code unit by code unit
Wrapped(O, T) ==
    [i \in 1..(Len(O) + Len(T) + 2) |->
        IF i <= Len(O) THEN O[i]
        ELSE IF i = Len(O) + 1 THEN 65288
        ELSE IF i <= Len(O) + 1 + Len(T) THEN T[i - Len(O) - 1]
        ELSE 65289]

\* the item translateTitles pushes for item when the providers answered T
ExpectedItem(item, isGithub, T) ==
    IF T = TargetText(item, isGithub) THEN item
    ELSE IF isGithub
         THEN [title |-> item.title, link |-> item.link,
               desc |-> Wrapped(item.desc, T)]
         ELSE [title |-> Wrapped(item.title, T), link |-> item.link,
               desc |-> item.desc]

\* C21: when a provider returns a text T that differs from the original O,
\* the pushed item's title (GitHub mode: description) is exactly O, "（", T,
\* "）"; when T equals O the item itself is pushed; every result has the
\* link of its input item and the same other fields, and the input list is
\* never changed.
C21_WrappedExactlyOrPassedThrough ==
    [][/\ tItems' = tItems
       /\ TextReturned =>
             tResults' = Append(tResults,
                 ExpectedItem(tItems[tIdx], tIsGithub, tAttempt'.text))
       /\ \A i \in DOMAIN tResults' :
             /\ tResults'[i].link = tItems[i].link
             /\ tIsGithub => tResults'[i].title = tItems[i].title
             /\ ~tIsGithub => tResults'[i].desc = tItems[i].desc]_vars

\* a finished call in which one item came back wrapped and, for the last
\* item asked about, a provider answered with the original text and the
\* item came back as it was
C21_Witness ==
    /\ tPc = "done"
    /\ \E i \in DOMAIN tResults : tResults[i] # tItems[i]
    /\ Len(tCalls) > 0
    /\ tAttempt.ret = "text"
    /\ tAttempt.text = TargetText(tItems[LastCallIdx], tIsGithub)
    /\ tResults[LastCallIdx] = tItems[LastCallIdx]

\* the translateText calls of the call so far, as positions of tCalls: each
\* starts with the request to the primary provider
ProviderCallAt(k) == tCalls[k].op = "primary"

\* a translation succeeded for an item before position n: its result is
\* not the input item
SucceededBefore(n) ==
    \E j \in 1..(n - 1) : j \in DOMAIN tResults /\ tResults[j] # tItems[j]

\* the entry just before k is a pacing delay
DelayBefore(k) == k > 1 /\ tCalls[k - 1].op = "sleep"

\* C22: within one translateTitles call a translateText call is preceded
\* by the 300 ms delay exactly when an earlier item of the call was
\* translated; the first provider call has no delay before it, and a
\* delay is never taken except just before a provider call.
C22_DelayIffEarlierSuccess ==
    /\ \A k \in DOMAIN tCalls :
          /\ ProviderCallAt(k) =>
                (DelayBefore(k) <=> SucceededBefore(tCalls[k].idx))
          /\ tCalls[k].op = "sleep" =>
                /\ tCalls[k].ms = 300
                /\ SucceededBefore(tCalls[k].idx)
                /\ IF k = Len(tCalls)
                   THEN tPc = "primary" /\ tIdx = tCalls[k].idx
                   ELSE ProviderCallAt(k + 1) /\ tCalls[k + 1].idx = tCalls[k].idx
    /\ Len(tCalls) > 0 => tCalls[1].op = "primary"
    /\ tPc = "primary" =>
          ((Len(tCalls) > 0 /\ tCalls[Len(tCalls)].op = "sleep")
               <=> SucceededBefore(tIdx))

\* a finished call on three items: the first translation failed, so no
\* delay came before the second; the second succeeded, so a delay came
\* before the third
C22_Witness ==
    /\ tPc = "done"
    /\ Len(tItems) = 3
    /\ tResults[1] = tItems[1]
    /\ tResults[2] # tItems[2]
    /\ \E k \in DOMAIN tCalls : ProviderCallAt(k) /\ tCalls[k].idx = 1
    /\ \E k \in DOMAIN tCalls :
          ProviderCallAt(k) /\ tCalls[k].idx = 2 /\ ~DelayBefore(k)
    /\ \E k \in DOMAIN tCalls :
          ProviderCallAt(k) /\ tCalls[k].idx = 3 /\ DelayBefore(k)

(***************************************************************************)
(* The failure counter over a sequence of calls (SpecTranslateCalls).      *)
(***************************************************************************)
\* a step that enters translateTitles
CallStarts == tPc = "done" /\ tPc' = "loop"

\* a step that pushes the current item in translated form
TranslationSucceeds ==
    /\ ~CallStarts
    /\ Len(tResults') = Len(tResults) + 1
    /\ tResults'[Len(tResults')] # tItems[tIdx]

\* a step in which translateText returns null: both providers failed
TranslationFails ==
    /\ ~CallStarts
    /\ tCalls' # tCalls
    /\ tCalls'[Len(tCalls')].op = "fallback"
    /\ tAttempt'.ret = "null"

\* C23: every successful translation sets the consecutive-failure counter
\* to zero, every full failure adds one and nothing else changes it, so
\* the counter is the number of full failures since the last success of
\* the call; the breaker trips exactly when that number reaches two; the
\* counter is zero when a call starts and never above two.
C23_CounterResetsOnSuccess ==
    [][/\ consecutiveFailures' \in 0..2
       /\ CallStarts => (consecutiveFailures' = 0 /\ ~aborted')
       /\ TranslationSucceeds => consecutiveFailures' = 0
       /\ TranslationFails => consecutiveFailures' = consecutiveFailures + 1
       /\ ~(CallStarts \/ TranslationSucceeds \/ TranslationFails) =>
             consecutiveFailures' = consecutiveFailures
       /\ ~CallStarts =>
             (aborted' <=> (aborted \/ consecutiveFailures' >= 2))
       /\ aborted' => consecutiveFailures' = 2]_vars

\* a finished call on three items: a full failure, a translation, a full
\* failure; the counter is at one and the breaker has not tripped
C23_Witness ==
    /\ tPc = "done"
    /\ Len(tItems) = 3
    /\ tResults[1] = tItems[1]
    /\ tResults[2] # tItems[2]
    /\ tResults[3] = tItems[3]
    /\ \E k \in DOMAIN tCalls : tCalls[k].op = "fallback" /\ tCalls[k].idx = 1
    /\ consecutiveFailures = 1
    /\ ~aborted

(***************************************************************************)
(* Properties of interleaved dispatch invocations (SpecInvocations).       *)
(***************************************************************************)
\* the places where an invocation is suspended on the network
OnNetwork == {"fetch", "fetchGithub", "primary", "fallback", "send"}

\* the operation an invocation suspended at pc is waiting for
AwaitedOp(rec) ==
    IF rec.pc = "fetch" THEN FetchOp(rec.sIdx)
    ELSE IF rec.pc = "fetchGithub" THEN FetchOp(1)
    ELSE IF rec.pc \in {"primary", "fallback"} THEN ProviderOp(rec.pc, rec.tIdx)
    ELSE PostOp(rec.wIdx, rec.mIdx)

\* C24: an invocation of dispatch has at most one network operation (source
\* fetch, provider request, webhook POST) outstanding: the one it is
\* suspended on; when it is not suspended on the network it has none.
C24_OneOperationOutstanding ==
    \A r \in DOMAIN inv :
        /\ Cardinality(inv[r].inflight) <= 1
        /\ IF inv[r].pc \in OnNetwork
           THEN inv[r].inflight = {AwaitedOp(inv[r])}
           ELSE inv[r].inflight = {}

\* invocation 1 waits for a POST after a fetch and a provider request of
\* its own have completed, while invocation 2 waits for a fetch
C24_Witness ==
    /\ DOMAIN inv = Invocations
    /\ inv[1].pc = "send"
    /\ inv[1].fetched # <<>>
    /\ inv[1].answers # <<>>
    /\ inv[2].pc = "fetch"
    /\ inv[2].inflight # {}

RECURSIVE AloneKeptFrom(_, _, _, _)
\* what the deduplicator of a category returns, call by call, when the
\* category's fetches are handled by an invocation of its own
AloneKeptFrom(fetched, i, seenIn, acc) ==
    IF i > Len(fetched) THEN acc
    ELSE LET filtered == IF Len(fetched[i]) = 0 THEN <<>>
                         ELSE applyKeywordFilter(fetched[i], InvLocalFilter)
             res == DedupFilter(seenIn, filtered)
         IN IF Len(filtered) = 0
            THEN AloneKeptFrom(fetched, i + 1, seenIn, acc)
            ELSE AloneKeptFrom(fetched, i + 1, res.seen, Append(acc, res.result))

AloneKept(fetched) == AloneKeptFrom(fetched, 1, <<>>, <<>>)

RECURSIVE AloneTranslatedFrom(_, _, _, _, _, _, _)
\* what a translateTitles call on items has pushed, and its failure count,
\* once translateText has returned the texts of answers, in order
AloneTranslatedFrom(items, isGithub, i, answers, a, failures, acc) ==
    IF i > Len(items) THEN [results |-> acc, failures |-> failures]
    ELSE IF failures >= MAX_CONSECUTIVE_FAILURES
            \/ ~WantsTranslation(items[i], isGithub)
    THEN AloneTranslatedFrom(items, isGithub, i + 1, answers, a, failures,
                             Append(acc, items[i]))
    ELSE IF a > Len(answers) THEN [results |-> acc, failures |-> failures]
    ELSE IF answers[a] = NoText
    THEN AloneTranslatedFrom(items, isGithub, i + 1, answers, a + 1, failures + 1,
                             Append(acc, items[i]))
    ELSE AloneTranslatedFrom(items, isGithub, i + 1, answers, a + 1,
             IF answers[a] = TargetText(items[i], isGithub) THEN failures ELSE 0,
             Append(acc, ExpectedItem(items[i], isGithub, answers[a])))

AloneTranslated(items, isGithub, answers) ==
    AloneTranslatedFrom(items, isGithub, 1, answers, 1, 0, <<>>)

IsPrefixOf(p, q) == Len(p) <= Len(q) /\ p = SubSeq(q, 1, Len(p))

NonEmptyLists(lists) == SelectSeq(lists, LAMBDA l : Len(l) > 0)

\* invocation rec is inside the body of the category loop
InCategoryBody(rec) ==
    rec.pc \in {"fetchGithub", "source", "fetch", "item", "throttle", "primary",
                "fallback", "post", "send", "pause"}

InWebhookLoop(rec) == rec.pc \in {"post", "send", "pause"}

\* what invocation rec keeps, translates and sends is what its own fetch
\* and provider results give
SameAsAlone(rec) ==
    /\ rec.kept = AloneKept(rec.fetched)
    /\ LET alone == AloneTranslated(rec.tItems, rec.tIsGithub, rec.answers)
       IN /\ IsPrefixOf(rec.tResults, alone.results)
          /\ (rec.pc \in {"throttle", "primary", "fallback"}
                 \/ rec.tIdx > Len(rec.tItems)) =>
                /\ rec.tResults = alone.results
                /\ rec.consecutiveFailures = alone.failures
    /\ (InCategoryBody(rec) /\ ~isGithubCategory(InvCategory(rec))) =>
          LET lists == NonEmptyLists(rec.kept)
          IN /\ Len(rec.groups) <= Len(lists)
             /\ \A k \in DOMAIN rec.groups :
                   /\ Len(rec.groups[k].items) = Len(lists[k])
                   /\ \A i \in DOMAIN lists[k] :
                         IsItemOrAugmented(rec.groups[k].items[i], lists[k][i], FALSE)
             /\ InWebhookLoop(rec) =>
                   /\ Len(rec.groups) = Len(lists)
                   /\ rec.messages = formatNewsMessages(rec.groups,
                                         DefaultMaxSourcesPerMsg, DefaultMaxChars)
    /\ (InWebhookLoop(rec) /\ isGithubCategory(InvCategory(rec))) =>
          rec.messages = <<formatGithubMarkdown(rec.tResults)>>
    /\ \A k \in DOMAIN rec.sent :
          rec.sent[k].cat = rec.cIdx => rec.sent[k].msg = rec.messages[rec.sent[k].m]

\* C25: two dispatch invocations whose steps interleave at their await
\* points share no deduplicator and no circuit-breaker state: what each
\* keeps after deduplication, pushes from translateTitles (with its failure
\* count) and sends is what its own fetch results and provider answers
\* give when handled alone.
C25_InvocationsDoNotInterfere ==
    \A r \in DOMAIN inv : SameAsAlone(inv[r])

\* both invocations are in the same category and have each kept the same
\* item; invocation 1 is sending after a failed translation, invocation 2
\* is waiting for its provider
C25_Witness ==
    /\ DOMAIN inv = Invocations
    /\ inv[1].pc = "send"
    /\ inv[2].pc = "primary"
    /\ inv[1].kept # <<>> /\ inv[2].kept # <<>>
    /\ inv[1].kept[1] = <<ItemEn>>
    /\ inv[2].kept[1] = <<ItemEn>>
    /\ inv[1].consecutiveFailures = 1
    /\ inv[2].consecutiveFailures = 0

(***************************************************************************)
(* Properties of the character and token helpers.                          *)
(***************************************************************************)
\* the call of SpecCjk has returned
CjkReturned == cArgs # None /\ cResult # None

\* the one-character tokens of a token set (a word has three letters or
\* more)
Ideographs(tokens) == {t \in tokens : Len(t) = 1}

\* the characters of a sequence, each as a one-character string
AsTokens(chars) == {<<chars[i]>> : i \in DOMAIN chars}

\* C26: the characters needsTranslation counts as CJK are exactly the
\* characters extractTokens adds to the token set as ideographs.
C26_SameCjkRanges ==
    CjkReturned =>
        AsTokens(cResult.value.cjkMatches) = Ideographs(cResult.value.tokens)

\* a helper call has returned
HelperReturned == cArgs # None /\ cResult # None

\* C27: jaccard returns 1 for two identical non-empty token sets, 0 for
\* two disjoint non-empty sets and 0 when either set is empty, so that two
\* titles without tokens are never similarity duplicates; it is symmetric
\* and, for two non-empty sets, equal to |A ∩ B| / |A ∪ B|.
C27_JaccardValues ==
    HelperReturned =>
        LET a == cArgs.a
            b == cArgs.b
            v == cResult.value
            w == jaccard(b, a)
        IN /\ v.den > 0
           /\ (a = b /\ a # {}) => v.num = v.den
           /\ (a # {} /\ b # {} /\ a \cap b = {}) => v.num = 0
           /\ (a = {} \/ b = {}) =>
                 /\ v.num = 0
                 /\ ~JaccardAtLeast(a, b, ThresholdNum, ThresholdDen)
           /\ v.num * w.den = w.num * v.den
           /\ (a # {} /\ b # {}) =>
                 v.num * Cardinality(a \cup b) = Cardinality(a \cap b) * v.den
           /\ JaccardAtLeast(a, b, ThresholdNum, ThresholdDen)
                 <=> v.num * ThresholdDen >= ThresholdNum * v.den

\* jaccard has returned 1/3 for two different sets that share a token
C27_Witness ==
    /\ HelperReturned
    /\ cArgs.a # cArgs.b
    /\ cArgs.a \cap cArgs.b # {}
    /\ cResult.value.num = 1
    /\ cResult.value.den = 3

\* C28: needsTranslation returns false for a text without a meaningful
\* character (only whitespace, digits, punctuation, symbols) and otherwise
\* true exactly when ten times the number of CJK characters is less than
\* three times the number of meaningful characters.
C28_TranslatesBelowThirtyPercent ==
    HelperReturned =>
        LET cjkCount == cArgs.cjk
            meaningfulChars == cArgs.cjk + cArgs.letters
        IN cResult.value =
               (meaningfulChars # 0 /\ 10 * cjkCount < 3 * meaningfulChars)

\* a text of exactly 30% CJK characters among its meaningful ones, with
\* characters that do not count: needsTranslation has returned false
C28_Witness ==
    /\ HelperReturned
    /\ cArgs.cjk = 3
    /\ cArgs.letters = 7
    /\ cArgs.others = 2
    /\ cResult.value = FALSE

(***************************************************************************)
(* Termination (SpecTerminates).                                           *)
(***************************************************************************)
\* dispatch has reached its last statement with every requested category
\* that is configured processed
Completed ==
    /\ pc = "done"
    /\ visited = KnownCategoryPositions(Len(categoryIds))

\* sendMarkdown has its request body, within the byte limit
BodyReady ==
    /\ aContent # None
    /\ wContent = None
    /\ Utf8Length(aContent.value) <= MAX_CONTENT_BYTES
    /\ aContent.value = WecomContent(aCall.text)

\* an iteration of the truncation loop leaves the content strictly shorter
LoopShortens ==
    (wContent # None /\ wContent' # None)
        => Len(wContent'.value) < Len(wContent.value)

\* C29 (as stated): every dispatch invocation reaches its final completion
\* step with every requested category processed; the WeCom truncation loop
\* strictly shortens the content and ends with it within the byte limit.
C29_DispatchTerminates ==
    /\ (pc = "start") ~> Completed
    /\ (wContent # None) ~> BodyReady
    /\ [][LoopShortens]_vars

\* C29 (amended): the same for a dispatch invocation whose configured
\* webhooks all have a supported type; with an unsupported type dispatch
\* ends by the exception of createWebhookAdapter before its first category.
C29_TerminatesWithSupportedTypes ==
    /\ (pc = "start" /\ AllWebhookTypesSupported) ~> Completed
    /\ (pc = "start" /\ ~AllWebhookTypesSupported) ~> (pc = "threw")
    /\ (wContent # None) ~> BodyReady
    /\ [][LoopShortens]_vars

\* a run has completed two categories although a fetch, a translation or
\* a send failed in one of them
C29_Witness ==
    /\ Completed
    /\ AllWebhookTypesSupported
    /\ Len(visited) = 2
    /\ failedAt # {}

(***************************************************************************)
(* Properties of the scheduler (SpecScheduler).                            *)
(***************************************************************************)
\* trigger t reloaded the file as it was and, unless the reload threw,
\* called dispatch with the reloaded configuration and its rule's categories
ReloadedThenDispatched(t) ==
    /\ t.rule \in ValidRules(Len(schedule))
    /\ IF loadConfig(t.file) = Threw
       THEN t.dispatched = None /\ t.state = "caught"
       ELSE /\ t.dispatched = [config |-> loadConfig(t.file).value,
                               categories |-> schedule[t.rule].categories]
            /\ t.state \in {"dispatching", "done", "caught"}

\* the callback of every rule with a valid cron expression is registered and
\* the process runs
AllValidRulesFire ==
    /\ schedPc = "running"
    /\ jobs = ValidRules(Len(schedule))

\* C30: every trigger of a valid rule reloads the configuration and then
\* calls dispatch with that rule's categories; after an error of the reload
\* or of dispatch was caught every valid rule still fires, unless the user
\* has stopped the process; an invalid cron expression leaves only its own
\* rule without a callback.
C30_TriggersReloadAndSurviveErrors ==
    /\ \A k \in 1..Len(triggers) : ReloadedThenDispatched(triggers[k])
    /\ (\E k \in 1..Len(triggers) : triggers[k].state = "caught")
           => (AllValidRulesFire \/ schedPc = "stopped")
    /\ schedPc \in {"running", "stopped"} => jobs = ValidRules(Len(schedule))
    /\ schedPc = "rules" => jobs = ValidRules(ruleIdx - 1)

\* the first rule has an invalid cron expression; the second rule fired
\* three times: the reload threw, then dispatch threw, then dispatch
\* returned with the edited configuration
C30_Witness ==
    /\ Len(schedule) = 2
    /\ jobs = {2}
    /\ Len(triggers) = 3
    /\ triggers[1].state = "caught" /\ triggers[1].dispatched = None
    /\ triggers[2].state = "caught" /\ triggers[2].dispatched # None
    /\ triggers[3].state = "done"
    /\ triggers[3].dispatched.config # triggers[2].dispatched.config

====
